---- MODULE Spec2Model ----
(***************************************************************************)
(* Acid-Generator-Mini: the SFC32 generator, the master pattern and its   *)
(* query layer (src/src/Generator.hpp) and the AcidSeq playback engine    *)
(* (src/src/AcidSeq.cpp), one process() call per audio sample.            *)
(*                                                                         *)
(* Numbers.  A uint32_t is a pair <<hi, lo>> of 16-bit limbs, so that its  *)
(* wrap-around at 2^32 is kept.  A float in [0,1] produced by the          *)
(* generator is the pair <<hi, lo>> of its numerator over 2^32, after the  *)
(* binary32 rounding of the conversion.  Times are integers in ticks of    *)
(* 0.1 ms.  Pitches are integers on a grid of SemitoneSteps steps per      *)
(* semitone (12 * SemitoneSteps per volt); a quotient of pitches is        *)
(* rounded to the grid, as binary32 rounds it to its own.                  *)
(***************************************************************************)
EXTENDS Integers, Sequences, FiniteSets, TLC

\* ------------------------------------------------------------- constants

MAX_STEPS == 64
BAR_LEN == 16
SCALE_SIZE == 7

W16 == 2 ^ 16

\* ------------------------------------------------------ uint32_t in limbs

U32(hi, lo) == <<hi, lo>>

\* A seed written as a natural number below 2^31.
U32Of(n) == <<n \div W16, n % W16>>

\* x + y (mod 2^32)
U32Add(x, y) ==
    LET lo == x[2] + y[2]
    IN  <<(x[1] + y[1] + (lo \div W16)) % W16, lo % W16>>

RECURSIVE XorBits(_, _, _)
XorBits(a, b, n) ==
    IF n = 0 THEN 0
    ELSE (((a % 2) + (b % 2)) % 2) + 2 * XorBits(a \div 2, b \div 2, n - 1)

\* x ^ y
U32Xor(x, y) == <<XorBits(x[1], y[1], 16), XorBits(x[2], y[2], 16)>>

\* x >> 9
U32Shr9(x) == <<x[1] \div 512, (x[1] % 512) * 128 + (x[2] \div 512)>>

\* x << 3 (mod 2^32)
U32Shl3(x) == <<(x[1] * 8 + ((x[2] * 8) \div W16)) % W16, (x[2] * 8) % W16>>

\* (x << 21) | (x >> 11): the low 11 bits move to the top, the top 21 down.
U32Rotl21(x) ==
    LET low11 == x[2] % 2048
        top21 == x[1] * 32 + (x[2] \div 2048)
    IN  <<low11 * 32 + (top21 \div W16), top21 % W16>>

\* ------------------------------------------------------- binary32 rounding

Pow2(k) == 2 ^ k

RECURSIVE BitLen(_)
BitLen(n) == IF n = 0 THEN 0 ELSE 1 + BitLen(n \div 2)

\* A three-limb natural number <<p2, p1, p0>> = p2*2^32 + p1*2^16 + p0.
Limbs3(p2, p1, p0) ==
    LET c0 == p0 \div W16
        c1 == (p1 + c0) \div W16
    IN  <<p2 + c1, (p1 + c0) % W16, p0 % W16>>

L3BitLen(p) ==
    IF p[1] > 0 THEN 32 + BitLen(p[1])
    ELSE IF p[2] > 0 THEN 16 + BitLen(p[2])
    ELSE BitLen(p[3])

\* p rounded to a multiple of u = 2^k for 1 <= k <= 16: rem is p mod u and
\* q the quotient's low bits.
L3RoundLow(p, u, rem, q) ==
    Limbs3(p[1], p[2],
           (p[3] - rem)
           + (IF (2 * rem > u) \/ (2 * rem = u /\ q % 2 = 1) THEN u ELSE 0))

\* p rounded to a multiple of u1 * 2^16 for u1 = 2^(k-16), 16 < k <= 24:
\* the remainder is remh * 2^16 + p0, against the half u1 * 2^15.
L3RoundHigh(p, u1, remh, q) ==
    Limbs3(p[1],
           (p[2] - remh)
           + (IF \/ (2 * remh > u1)
                 \/ (2 * remh = u1 /\ p[3] > 0)
                 \/ (2 * remh = u1 /\ p[3] = 0 /\ q % 2 = 1)
              THEN u1 ELSE 0),
           0)

\* p rounded to a multiple of 2^k, ties to even (0 <= k <= 24).
L3RoundUnit(p, k) ==
    IF k = 0 THEN p
    ELSE IF k <= 16 THEN
        L3RoundLow(p, Pow2(k), p[3] % Pow2(k),
                   IF k = 16 THEN p[2] ELSE p[3] \div Pow2(k))
    ELSE
        L3RoundHigh(p, Pow2(k - 16), p[2] % Pow2(k - 16),
                    p[2] \div Pow2(k - 16))

\* p, of n bits, rounded to 24 significant bits.
L3RoundBits(p, n) == IF n <= 24 THEN p ELSE L3RoundUnit(p, n - 24)

\* The binary32 value nearest to p (24 significant bits, ties to even).
L3Float(p) == L3RoundBits(p, L3BitLen(p))

L3Less(p, q) ==
    \/ p[1] < q[1]
    \/ p[1] = q[1] /\ p[2] < q[2]
    \/ p[1] = q[1] /\ p[2] = q[2] /\ p[3] < q[3]

\* p + n * 2^31 (n halves), exact
L3AddHalves(p, n) == Limbs3(p[1] + (n \div 2), p[2] + (n % 2) * 32768, p[3])

\* p * n for a small n, exact
L3Times(p, n) == Limbs3(p[1] * n, p[2] * n, p[3] * n)

\* -------------------------------------------------------------- SFC32

\* SFC32(seed): all four words are the seed.
SFC32Init(seed) == [a |-> seed, b |-> seed, c |-> seed, d |-> seed]

\* next(): the new generator state and the float returned, as its numerator
\* over 2^32 (static_cast<float>(t) rounds t to 24 bits, so 2^32 can result).
SFC32Next(r) ==
    LET t0 == U32Add(r.a, r.b)
        a1 == U32Xor(r.b, U32Shr9(r.b))
        b1 == U32Add(r.c, U32Shl3(r.c))
        c0 == U32Rotl21(r.c)
        d1 == U32Add(r.d, <<0, 1>>)
        t1 == U32Add(t0, d1)
        c1 == U32Add(c0, t1)
    IN  [rng   |-> [a |-> a1, b |-> b1, c |-> c1, d |-> d1],
         value |-> L3Float(<<0, t1[1], t1[2]>>)]

\* randomInt(min, max): floor(next() * (max - min + 1)) + min, the product
\* rounded to binary32 before the floor.
RandomInt(r, min, max) ==
    LET n == SFC32Next(r)
        p == L3Float(L3Times(n.value, max - min + 1))
    IN  [rng |-> n.rng, int |-> p[1] + min]

\* n draws in a row, first half then second half.  (x = x is true; it makes
\* TLC compute the generator's state after the first half before the second
\* half is started, which keeps the evaluation shallow.)
RECURSIVE DrawN(_, _)
DrawN(r, n) ==
    IF n = 0 THEN [rng |-> r, vals |-> <<>>]
    ELSE IF n = 1 THEN
        LET d == SFC32Next(r) IN [rng |-> d.rng, vals |-> <<d.value>>]
    ELSE
        LET h == n \div 2
            x == DrawN(r, h)
        IN  IF x = x
            THEN LET y == DrawN(x.rng, n - h)
                 IN  [rng |-> y.rng, vals |-> x.vals \o y.vals]
            ELSE x

\* ------------------------------------------------------- master pattern

\* 0.5f as a numerator over 2^32
FloatHalf == <<0, 32768, 0>>

\* 0.3f = 10066330 * 2^-25 as a numerator over 2^32
Float03 == <<0, 19660, 52480>>

\* MasterPattern(): identity orderings, steps {0, 0, 0.5f, 0.5f}, no mutes.
MasterPatternInit ==
    [barActivationOrder |-> [i \in 0..(BAR_LEN - 1) |-> i],
     scalePriorityOrder |-> [i \in 0..(SCALE_SIZE - 1) |-> i],
     steps |-> [i \in 0..(MAX_STEPS - 1) |->
                   [notePoolIndex |-> 0, octave |-> 0,
                    accentProb |-> FloatHalf, slideProb |-> FloatHalf]],
     muted |-> [i \in 0..(MAX_STEPS - 1) |-> FALSE]]

\* The inner pass with the swap written without the temporary: the heavier
\* entry is copied down and the lighter one is lost.
RECURSIVE BubblePassWithoutTemp(_, _, _)
BubblePassWithoutTemp(arr, j, lim) ==
    IF j >= lim THEN arr
    ELSE LET sw == L3Less(arr[j].weight, arr[j + 1].weight)
             nx == IF sw THEN [arr EXCEPT ![j] = arr[j + 1]]
                   ELSE arr
         IN  IF nx = nx THEN BubblePassWithoutTemp(nx, j + 1, lim) ELSE arr

\* One inner pass of the bubble sort: j = 0 .. lim-1, swap when
\* arr[j].weight < arr[j+1].weight.
RECURSIVE BubblePass(_, _, _)
BubblePass(arr, j, lim) ==
    IF j >= lim THEN arr
    ELSE LET sw == L3Less(arr[j].weight, arr[j + 1].weight)
             nx == IF sw THEN [arr EXCEPT ![j] = arr[j + 1], ![j + 1] = arr[j]]
                   ELSE arr
         IN  IF nx = nx THEN BubblePass(nx, j + 1, lim) ELSE arr

\* Sort by weight descending: i = 0 .. n-2, inner limit n - i - 1.
RECURSIVE BubbleSort(_, _, _)
BubbleSort(arr, i, n) ==
    IF i >= n - 1 THEN arr
    ELSE LET nx == BubblePass(arr, 0, n - i - 1)
         IN  IF nx = nx THEN BubbleSort(nx, i + 1, n) ELSE arr

\* The root's weight left as drawn.
Plus999Unboosted(w) == w

\* weight += 999.0f
Plus999(w) == L3Float(Limbs3(w[1] + 999, w[2], w[3]))

\* weight += 0.5f
PlusHalf(w) == L3Float(L3AddHalves(w, 1))

\* 1. the weighted scale degrees: root +999, fifth +0.5
WeightedScale(vals) ==
    [i \in 0..(SCALE_SIZE - 1) |->
        LET w0 == vals[i + 1]
            w1 == IF i = 0 THEN Plus999(w0) ELSE w0
            w2 == IF i = 4 THEN PlusHalf(w1) ELSE w1
        IN  [index |-> i, weight |-> w2]]

\* 2. the weighted bar positions: downbeats +0.5, the "One" +0.5 more
WeightedBarSteps(vals) ==
    [i \in 0..(BAR_LEN - 1) |->
        LET w0 == vals[i + 1]
            w1 == IF i % 4 = 0 THEN PlusHalf(w0) ELSE w0
            w2 == IF i = 0 THEN PlusHalf(w1) ELSE w1
        IN  [index |-> i, weight |-> w2]]

\* 3. the content of step i
GenStep(r, i) ==
    LET isDownbeat == (i % 4 = 0)
        d1 == IF isDownbeat THEN SFC32Next(r)
              ELSE [rng |-> r, value |-> <<0, 0, 0>>]
        root == isDownbeat /\ L3Less(Float03, d1.value)
        d2 == IF root THEN [rng |-> d1.rng, int |-> 0]
              ELSE RandomInt(d1.rng, 0, SCALE_SIZE - 1)
        d3 == RandomInt(d2.rng, -1, 1)
        d4 == SFC32Next(d3.rng)
        d5 == SFC32Next(d4.rng)
    IN  [rng |-> d5.rng,
         steps |-> <<[notePoolIndex |-> d2.int, octave |-> d3.int,
                      accentProb |-> d4.value, slideProb |-> d5.value]>>]

\* The content of the n steps i .. i+n-1, in order, as a sequence.
RECURSIVE GenSteps(_, _, _)
GenSteps(r, i, n) ==
    IF n = 1 THEN GenStep(r, i)
    ELSE LET h == n \div 2
             x == GenSteps(r, i, h)
         IN  IF x = x
             THEN LET y == GenSteps(x.rng, i + h, n - h)
                  IN  [rng |-> y.rng, steps |-> x.steps \o y.steps]
             ELSE x

\* The stores with the sorted bar weights reordering the activation order
\* the pattern held before, in place of overwriting it.
generateMasterStoreOverPreviousOrder(output, scale, bar, st) ==
    [output EXCEPT
        !.scalePriorityOrder = [i \in 0..(SCALE_SIZE - 1) |-> scale[i].index],
        !.barActivationOrder = [i \in 0..(BAR_LEN - 1) |->
                                   output.barActivationOrder[bar[i].index]],
        !.steps = [i \in 0..(MAX_STEPS - 1) |-> st[i + 1]]]

\* The end of generateMaster: the sorted scale and bar weights and the
\* step contents are written to the output arrays.
generateMasterStore(output, scale, bar, st) ==
    [output EXCEPT
        !.scalePriorityOrder = [i \in 0..(SCALE_SIZE - 1) |-> scale[i].index],
        !.barActivationOrder = [i \in 0..(BAR_LEN - 1) |-> bar[i].index],
        !.steps = [i \in 0..(MAX_STEPS - 1) |-> st[i + 1]]]

\* generateMaster after the bar weights db have been drawn.
generateMasterBar(output, scale, db) ==
    generateMasterStore(output, scale,
                        BubbleSort(WeightedBarSteps(db.vals), 0, BAR_LEN),
                        GenSteps(db.rng, 0, MAX_STEPS).steps)

\* generateMaster after the scale weights ds have been drawn.
generateMasterScale(output, ds) ==
    generateMasterBar(output,
                      BubbleSort(WeightedScale(ds.vals), 0, SCALE_SIZE),
                      DrawN(ds.rng, BAR_LEN))

\* The seeds std::time() ^ (currentSeed * 1664525 + 1013904223) can give:
\* any 32-bit value; two are explored, and a generate replaces the seed by
\* another one (the wall clock would have to equal one particular value for
\* the seed to repeat).
Seeds == {U32Of(192), U32Of(12345)}

\* What generateMaster writes depends on the seed alone; it is computed
\* once for each seed explored.
RECURSIVE GeneratedFor(_)
GeneratedFor(S) ==
    IF S = {} THEN <<>>
    ELSE LET s == CHOOSE x \in S : TRUE
         IN  (s :> generateMasterScale(MasterPatternInit,
                                       DrawN(SFC32Init(s), SCALE_SIZE)))
             @@ GeneratedFor(S \ {s})

Generated == GeneratedFor(Seeds)

\* generateMaster(seed, output): both orderings and the 64 steps are
\* replaced, the mute mask is left alone.
generateMaster(seed, output) ==
    [output EXCEPT
        !.scalePriorityOrder = Generated[seed].scalePriorityOrder,
        !.barActivationOrder = Generated[seed].barActivationOrder,
        !.steps = Generated[seed].steps]

\* --------------------------------------------------------- query layer

Max(a, b) == IF a >= b THEN a ELSE b

\* The quotient q (to 32 fractional bits, k bits more than binary32 holds)
\* rounded to binary32; inexact says that bits were left over.
FloatQuotient(q, k, inexact) ==
    IF /\ inexact
       /\ k >= 1 /\ k <= 16
       /\ (q[3] % Pow2(k)) * 2 = Pow2(k)
    THEN L3Float(Limbs3(q[1], q[2], q[3] + 1))
    ELSE L3Float(q)

\* knob / 100.0f for a knob at a whole number of percent: the binary32
\* quotient, as a numerator over 2^32.  The quotient is taken to 32
\* fractional bits; when bits are left over, a tie is no tie.
FloatPercentOf(q, inexact) == FloatQuotient(q, L3BitLen(q) - 24, inexact)

FloatPercentValue(pct) ==
    FloatPercentOf(<<pct \div 100,
                     ((pct % 100) * W16) \div 100,
                     ((((pct % 100) * W16) % 100) * W16) \div 100>>,
                   ((((pct % 100) * W16) % 100) * W16) % 100 > 0)

\* The quotients for the knob positions lo .. hi, computed once.
RECURSIVE FloatPercentsIn(_, _)
FloatPercentsIn(lo, hi) ==
    IF lo = hi THEN lo :> FloatPercentValue(lo)
    ELSE FloatPercentsIn(lo, (lo + hi) \div 2)
         @@ FloatPercentsIn(((lo + hi) \div 2) + 1, hi)

FloatPercents == FloatPercentsIn(0, 100)

\* accentsDensity / 100.0f, slidesDensity / 100.0f
FloatPercent(pct) == FloatPercents[pct]

\* std::round of n * pct / 100 for whole pct >= 0 (half away from zero)
RoundPercentOf(n, pct) == (n * pct + 50) \div 100

\* The loop run over the last activeCount entries of the activation order.
ActiveAmongLast(mp, barPos, activeCount) ==
    \E i \in 0..(BAR_LEN - 1) :
        i >= BAR_LEN - activeCount /\ mp.barActivationOrder[i] = barPos

\* The loop of isStepActive: is barPos among the first activeCount entries
\* of the activation order?
ActiveAmong(mp, barPos, activeCount) ==
    \E i \in 0..(BAR_LEN - 1) :
        i < activeCount /\ mp.barActivationOrder[i] = barPos

\* The loop stopped one entry early.
isStepActiveOffByOne(mp, step, density) ==
    ActiveAmong(mp, step % BAR_LEN,
                Max(0, RoundPercentOf(BAR_LEN, density)) - 1)

\* isStepActive(step, density)
isStepActive(mp, step, density) ==
    ActiveAmong(mp, step % BAR_LEN, Max(0, RoundPercentOf(BAR_LEN, density)))

\* getScaleDegree with quantizeToPool = false: -1 outside the pool.
getScaleDegreeUnquantized(mp, step, spread) ==
    LET ms == mp.steps[step]
        spreadCount == Max(1, RoundPercentOf(SCALE_SIZE, spread))
    IN  IF ms.notePoolIndex < spreadCount
        THEN mp.scalePriorityOrder[ms.notePoolIndex]
        ELSE -1

\* getScaleDegree(step, spread) with quantizeToPool = true
getScaleDegree(mp, step, spread) ==
    LET ms == mp.steps[step]
        spreadCount == Max(1, RoundPercentOf(SCALE_SIZE, spread))
    IN  IF ms.notePoolIndex < spreadCount
        THEN mp.scalePriorityOrder[ms.notePoolIndex]
        ELSE mp.scalePriorityOrder[0]

RestStep == [note |-> -1, octave |-> 0, accent |-> FALSE, slide |-> FALSE]

\* SequenceStep::isRest
isRest(st) == st.note < 0

\* getStep without its mute check.
getStepAtIgnoringMutes(mp, step, density, spread, accentThreshold, slideThreshold) ==
    IF ~isStepActive(mp, step, density) THEN RestStep
    ELSE IF getScaleDegree(mp, step, spread) < 0 THEN RestStep
    ELSE [note   |-> getScaleDegree(mp, step, spread),
          octave |-> mp.steps[step].octave,
          accent |-> L3Less(mp.steps[step].accentProb, accentThreshold),
          slide  |-> L3Less(mp.steps[step].slideProb, slideThreshold)]

\* The body of getStep once accentsDensity / 100.0f and
\* slidesDensity / 100.0f have been computed.
getStepAt(mp, step, density, spread, accentThreshold, slideThreshold) ==
    IF mp.muted[step] THEN RestStep
    ELSE IF ~isStepActive(mp, step, density) THEN RestStep
    ELSE IF getScaleDegree(mp, step, spread) < 0 THEN RestStep
    ELSE [note   |-> getScaleDegree(mp, step, spread),
          octave |-> mp.steps[step].octave,
          accent |-> L3Less(mp.steps[step].accentProb, accentThreshold),
          slide  |-> L3Less(mp.steps[step].slideProb, slideThreshold)]

\* getStep(step, density, spread, accentsDensity, slidesDensity)
getStep(mp, step, density, spread, accentsDensity, slidesDensity) ==
    getStepAt(mp, step, density, spread, FloatPercent(accentsDensity),
              FloatPercent(slidesDensity))

\* clearMutes()
clearMutes(mp) == [mp EXCEPT !.muted = [i \in 0..(MAX_STEPS - 1) |-> FALSE]]

\* ------------------------------------------------------------ scale table

\* SCALES[]: the intervals of each scale (its first `length` entries)
SCALES ==
    << <<0, 2, 4, 5, 7, 9, 11>>,      \* MAJOR
       <<0, 2, 3, 5, 7, 8, 10>>,      \* MINOR
       <<0, 2, 3, 5, 7, 9, 10>>,      \* DORIAN
       <<0, 2, 4, 5, 7, 9, 10>>,      \* MIXOLYDIAN
       <<0, 2, 4, 6, 7, 9, 11>>,      \* LYDIAN
       <<0, 1, 3, 5, 7, 8, 10>>,      \* PHRYGIAN
       <<0, 1, 3, 5, 6, 8, 10>>,      \* LOCRIAN
       <<0, 2, 3, 5, 7, 8, 11>>,      \* HARMONIC_MINOR
       <<0, 2, 4, 5, 7, 8, 11>>,      \* HARMONIC_MAJOR
       <<0, 2, 3, 6, 7, 9, 10>>,      \* DORIAN_NR_4
       <<0, 1, 4, 5, 7, 8, 10>>,      \* PHRYGIAN_DOMINANT
       <<0, 2, 3, 5, 7, 9, 11>>,      \* MELODIC_MINOR
       <<0, 2, 4, 6, 8, 9, 11>>,      \* LYDIAN_AUGMENTED
       <<0, 2, 4, 6, 7, 9, 10>>,      \* LYDIAN_DOMINANT
       <<0, 2, 3, 6, 7, 8, 11>>,      \* HUNGARIAN_MINOR
       <<0, 1, 3, 4, 6, 8, 10>>,      \* SUPER_LOCRIAN
       <<0, 1, 4, 5, 7, 9, 10>>,      \* SPANISH
       <<0, 1, 4, 5, 7, 8, 11>>,      \* BHAIRAV
       <<0, 3, 5, 7, 10>>,            \* PENTATONIC_MINOR
       <<0, 2, 4, 7, 9>>,             \* PENTATONIC_MAJOR
       <<0, 3, 5, 6, 7, 10>>,         \* BLUES_MINOR
       <<0, 2, 4, 6, 8, 10>>,         \* WHOLE_TONE
       <<0, 1, 2, 3, 4, 5, 6, 7, 8, 9, 10, 11>>,  \* CHROMATIC
       <<0, 1, 5, 7, 10>> >>          \* JAPANESE_IN_SEN

\* getNoteInScale(note, scale, root, octave); scale counts from 0
getNoteInScale(note, scale, root, octave) ==
    IF note < 0 THEN -1
    ELSE LET intervals == SCALES[scale + 1]
             len == Len(intervals)
         IN  intervals[(note % len) + 1] + root + 12 * (octave + (note \div len))


\* ------------------------------------------------------- bounds and inputs

\* Ticks of 0.1 ms.
Ms(x) == 10 * x

\* Grid steps per semitone of the pitch grid (12 per volt times this).
SemitoneSteps == 3

\* The longest run of samples without a clock edge that is explored.
MaxClockGap == 3

\* The pattern length knob is explored over 1 .. MaxPatternLength.
MaxPatternLength == 2

\* args.sampleTime: 10 ms per sample in the playback specification.  In the
\* clock-measurement one: 5 ms, where two samples make the 10 ms bound and
\* three pass it; 1 s, where two samples make the 2 s bound; and 800 ms,
\* where two samples stay under 2 s and three pass it.
SampleTimes == {Ms(10)}
ClockSampleTimes == {Ms(5), Ms(800), Ms(1000)}

\* Knob positions explored (percent).
Densities == {25, 100}
Spreads == {100}
AccentDensities == {65}
SlideDensities == {50}

\* ------------------------------------------------------------- the module

RETRIGGER_GAP_TIME == Ms(1)
ShortGateTime == Ms(20)
GlideTime == Ms(50)
ClockPeriodMin == Ms(10)
ClockPeriodMax == Ms(2000)
DefaultClockPeriod == Ms(125)

VARIABLES
    sampleTime,             \* args.sampleTime (args.sampleRate is its inverse)
    params,                 \* the knobs
    trig,                   \* the four SchmittTriggers' states
    gatePulse,              \* gatePulse.remaining
    accentPulse,            \* accentPulse.remaining
    masterPattern,
    displayPattern,
    cached,                 \* cachedDensity .. cachedSlideDensity
    forceDisplayRefresh,
    currentStep,
    currentSlideActive,
    slideTargetPitch,
    currentPitch,
    slideRate,
    timeSinceLastClock,
    measuredClockPeriod,
    retriggerGapRemaining,
    currentSeed,
    outputs,                \* OUTPUT_PITCH, OUTPUT_GATE, OUTPUT_ACCENT, OUTPUT_SLIDE
    call,                   \* what the last handler did (its locals)
    query                   \* the last call of the query layer and its result

vars == <<sampleTime, params, trig, gatePulse, accentPulse, masterPattern,
          displayPattern, cached, forceDisplayRefresh, currentStep,
          currentSlideActive, slideTargetPitch, currentPitch, slideRate,
          timeSinceLastClock, measuredClockPeriod, retriggerGapRemaining,
          currentSeed, outputs, call, query>>

\* dsp::SchmittTrigger::process on a level that is high (>= 1 V) or low
\* (<= 0 V): it fires on low -> high only.
SchmittProcess(state, high) == [state |-> high, triggered |-> ~state /\ high]

\* dsp::PulseGenerator::trigger: a pulse that would end later is kept.
PulseTrigger(remaining, duration) ==
    IF duration > remaining THEN duration ELSE remaining

\* dsp::PulseGenerator::process
PulseProcess(remaining, deltaTime) ==
    [remaining |-> IF remaining > 0 THEN remaining - deltaTime ELSE remaining,
     high      |-> remaining > 0]

\* n / d rounded to the nearest integer, halves away from zero.  d > 0.
RoundDiv(n, d) ==
    IF n < 0 THEN -((2 * (-n) + d) \div (2 * d))
    ELSE (2 * n + d) \div (2 * d)

\* midiNote / 12.0f on the pitch grid
PitchOfMidi(midiNote) == midiNote * SemitoneSteps

\* The quotient with its operands exchanged: a ramp away from the target.
SlideRateReversed(target, current, dt) == (current - target) * dt

\* (slideTargetPitch - currentPitch) / (0.05f * args.sampleRate), kept as the
\* numerator of a fraction over GlideTime: grid steps per sample times
\* GlideTime.  It is zero only when the two pitches are equal.
SlideRateFor(target, current, dt) == (target - current) * dt

\* currentPitch += slideRate: a binary32 sum is rounded to the precision of
\* the pitch, here to the pitch grid, so a rate of less than half a grid
\* step leaves the pitch where it is.
PitchPlusRate(pitch, rate) == pitch + RoundDiv(rate, GlideTime)

\* The tie gate without its 10 % overlap.
LongGateTimeExact(period) == period

\* measuredClockPeriod * 1.1f
LongGateTime(period) == (period * 11) \div 10

\* The locals of a process() call in which no block ran; op names the
\* handler that ran last.
NoCall(op) ==
    [op |-> op, clockRising |-> FALSE, resetRising |-> FALSE,
     generateTriggered |-> FALSE, reads |-> {}, isNote |-> FALSE,
     slideFromPrev |-> FALSE, stepSlide |-> FALSE, stepAccent |-> FALSE,
     pitchVoltage |-> 0, rateSet |-> 0, gateTrig |-> 0, accentTrig |-> 0,
     gapArmed |-> FALSE, gapPositive |-> FALSE, gateHigh |-> FALSE,
     stepBefore |-> -1, elapsed |-> 0, rampSamples |-> 0,
     octaveUp |-> FALSE, octaveDown |-> FALSE, octaveBefore |-> 0]

\* The playback fields of the module, as one record.
Engine ==
    [currentStep |-> currentStep, currentSlideActive |-> currentSlideActive,
     slideTargetPitch |-> slideTargetPitch, currentPitch |-> currentPitch,
     slideRate |-> slideRate, timeSinceLastClock |-> timeSinceLastClock,
     measuredClockPeriod |-> measuredClockPeriod,
     retriggerGapRemaining |-> retriggerGapRemaining,
     gatePulse |-> gatePulse, accentPulse |-> accentPulse]

\* generateNewPattern(): the new seed (the wall clock decides it), the new
\* master pattern with its mutes cleared; cachedDensity = -1.
generateNewPattern(seed, mp) == clearMutes(generateMaster(seed, mp))

\* The loop of updateDisplayPattern(): every step resolved under the same
\* knob values, whose quotients by 100.0f are therefore the same throughout.
ResolveAllAt(mp, p, accentThreshold, slideThreshold) ==
    [i \in 0..(MAX_STEPS - 1) |->
        getStepAt(mp, i, p.density, p.spread, accentThreshold, slideThreshold)]

\* The display pattern of master pattern mp under knobs p.
ResolveAll(mp, p) ==
    ResolveAllAt(mp, p, FloatPercent(p.accentDensity),
                 FloatPercent(p.slideDensity))

KnobCache(p) ==
    [density |-> p.density, spread |-> p.spread,
     accentDensity |-> p.accentDensity, slideDensity |-> p.slideDensity]

\* updateDisplayPattern() with the DENSITY knob left out of its comparison.
updateDisplayPatternWithoutDensity(mp, p, c, force, dp) ==
    IF /\ ~force
       /\ c.spread = p.spread
       /\ c.accentDensity = p.accentDensity
       /\ c.slideDensity = p.slideDensity
    THEN [cached |-> c, displayPattern |-> dp]
    ELSE [cached |-> KnobCache(p), displayPattern |-> ResolveAll(mp, p)]

\* updateDisplayPattern(): the cached knob values and the display pattern
\* it leaves.
updateDisplayPattern(mp, p, c, force, dp) ==
    IF ~force /\ c = KnobCache(p)
    THEN [cached |-> c, displayPattern |-> dp]
    ELSE [cached |-> KnobCache(p), displayPattern |-> ResolveAll(mp, p)]

\* A generate edge that also sends playback back to before the first step.
HandleGenerateRestarts(e, generateTriggered) ==
    IF generateTriggered
    THEN [e EXCEPT !.currentStep = -1, !.currentSlideActive = FALSE]
    ELSE e

\* The generate block of process() on the playback fields:
\* generateNewPattern() writes currentSeed, masterPattern, cachedDensity and
\* the light, and none of the playback fields.
HandleGenerate(e, generateTriggered) == e

\* An up edge that stops one step late (<= for <).
OctaveUpLate(octave, triggered) ==
    IF triggered /\ octave <= 2 THEN octave + 1 ELSE octave

\* The octave buttons' block of process(): an up edge adds 1 below +2, then
\* a down edge subtracts 1 above -2.
OctaveUp(octave, triggered) ==
    IF triggered /\ octave < 2 THEN octave + 1 ELSE octave

OctaveDown(octave, triggered) ==
    IF triggered /\ octave > -2 THEN octave - 1 ELSE octave

\* A reset that goes to step 0 instead of to the position before it.
HandleResetToZero(e, resetRising) ==
    IF resetRising
    THEN [e EXCEPT !.currentStep = 0, !.currentSlideActive = FALSE,
                   !.retriggerGapRemaining = 0]
    ELSE e

\* The reset block of process().
HandleReset(e, resetRising) ==
    IF resetRising
    THEN [e EXCEPT !.currentStep = -1, !.currentSlideActive = FALSE,
                   !.retriggerGapRemaining = 0]
    ELSE e

\* The note branch of the clock block: the step is a note of voltage
\* pitchVoltage, and prevStepData is what the step before it resolves to.
\* period is measuredClockPeriod as the edge left it.
ClockNote(e1, dt, cur, step, pitchVoltage, prevStep, prevStepData) ==
    LET period == e1.measuredClockPeriod
        slideFromPrev == ~isRest(prevStepData) /\ prevStepData.slide
        rate   == SlideRateFor(pitchVoltage, e1.currentPitch, dt)
        gateTime == IF step.slide THEN LongGateTime(period) ELSE ShortGateTime
        gap    == e1.gatePulse > 0
        obs0   == [NoCall("process") EXCEPT
                        !.clockRising = TRUE, !.reads = {cur, prevStep},
                        !.isNote = TRUE, !.stepSlide = step.slide,
                        !.stepAccent = step.accent,
                        !.pitchVoltage = pitchVoltage]
    IN  IF slideFromPrev THEN
            [e   |-> [e1 EXCEPT
                        !.slideTargetPitch = pitchVoltage,
                        !.slideRate = rate,
                        !.gatePulse = IF step.slide
                                      THEN PulseTrigger(@, LongGateTime(period))
                                      ELSE @,
                        !.currentSlideActive = step.slide],
             obs |-> [obs0 EXCEPT
                        !.slideFromPrev = TRUE, !.rateSet = rate,
                        !.gateTrig = IF step.slide THEN LongGateTime(period)
                                     ELSE 0]]
        ELSE
            [e   |-> [e1 EXCEPT
                        !.currentPitch = pitchVoltage,
                        !.slideTargetPitch = pitchVoltage,
                        !.slideRate = 0,
                        !.retriggerGapRemaining =
                            IF gap THEN RETRIGGER_GAP_TIME ELSE @,
                        !.gatePulse = PulseTrigger(@, gateTime),
                        !.accentPulse = IF step.accent
                                        THEN PulseTrigger(@, gateTime) ELSE @,
                        !.currentSlideActive = step.slide],
             obs |-> [obs0 EXCEPT
                        !.gateTrig = gateTime,
                        !.accentTrig = IF step.accent THEN gateTime ELSE 0,
                        !.gapArmed = gap]]

\* A rest that stops the ramp along with the sliding flag.
ClockStepRestStopsRamp(e1, mp, p, dt, cur, step) ==
    IF isRest(step) THEN
        [e   |-> [e1 EXCEPT !.currentSlideActive = FALSE, !.slideRate = 0],
         obs |-> [NoCall("process") EXCEPT !.clockRising = TRUE,
                                          !.reads = {cur}]]
    ELSE
        ClockNote(e1, dt, cur, step,
                  PitchOfMidi(getNoteInScale(step.note, p.scale, p.rootNote,
                                             step.octave + p.octave)),
                  (cur - 1 + p.patternLength) % p.patternLength,
                  getStep(mp, (cur - 1 + p.patternLength) % p.patternLength,
                          p.density, p.spread, p.accentDensity, p.slideDensity))

\* The clock block once the step index has advanced to cur and the step
\* there has been resolved.
ClockStep(e1, mp, p, dt, cur, step) ==
    IF isRest(step) THEN
        [e   |-> [e1 EXCEPT !.currentSlideActive = FALSE],
         obs |-> [NoCall("process") EXCEPT !.clockRising = TRUE,
                                          !.reads = {cur}]]
    ELSE
        ClockNote(e1, dt, cur, step,
                  PitchOfMidi(getNoteInScale(step.note, p.scale, p.rootNote,
                                             step.octave + p.octave)),
                  (cur - 1 + p.patternLength) % p.patternLength,
                  getStep(mp, (cur - 1 + p.patternLength) % p.patternLength,
                          p.density, p.spread, p.accentDensity, p.slideDensity))

\* An estimate without the sanity bounds.
MeasuredPeriodUnbounded(t, old) == t

\* The period estimate after an edge that comes t after the previous one.
MeasuredPeriod(t, old) ==
    IF t > ClockPeriodMin /\ t < ClockPeriodMax THEN t ELSE old

\* The wrap tested one step late (> for >=).
AdvanceStepLate(step, patternLength) ==
    IF step + 1 > patternLength THEN 0 ELSE step + 1

\* The wrap at the size of the pattern store instead of the LENGTH knob.
AdvanceStepAtMax(step, patternLength) ==
    IF step + 1 >= MAX_STEPS THEN 0 ELSE step + 1

\* currentStep++ and the wrap at patternLength.
AdvanceStep(step, patternLength) ==
    IF step + 1 >= patternLength THEN 0 ELSE step + 1

\* The clock block of process(), taken on a rising edge: the new playback
\* fields (e) and the block's locals (obs).
HandleClock(e0, mp, p, dt) ==
    [ClockStep([e0 EXCEPT !.measuredClockPeriod =
                              MeasuredPeriod(e0.timeSinceLastClock, @),
                          !.timeSinceLastClock = 0,
                          !.currentStep = AdvanceStep(@, p.patternLength)],
               mp, p, dt, AdvanceStep(e0.currentStep, p.patternLength),
               getStep(mp, AdvanceStep(e0.currentStep, p.patternLength),
                       p.density, p.spread, p.accentDensity, p.slideDensity))
        EXCEPT !.obs.elapsed = e0.timeSinceLastClock]

\* The portamento block without the snap to the target: the ramp is stopped
\* where its last addition has taken the pitch.
ProcessSlideUnclamped(e) ==
    IF e.slideRate # 0 THEN
        LET cp == PitchPlusRate(e.currentPitch, e.slideRate)
            reached == \/ (e.slideRate > 0 /\ cp >= e.slideTargetPitch)
                       \/ (e.slideRate < 0 /\ cp <= e.slideTargetPitch)
        IN  IF reached
            THEN [e EXCEPT !.currentPitch = cp, !.slideRate = 0]
            ELSE [e EXCEPT !.currentPitch = cp]
    ELSE e

\* The portamento block of process().
ProcessSlide(e) ==
    IF e.slideRate # 0 THEN
        LET cp == PitchPlusRate(e.currentPitch, e.slideRate)
            reached == \/ (e.slideRate > 0 /\ cp >= e.slideTargetPitch)
                       \/ (e.slideRate < 0 /\ cp <= e.slideTargetPitch)
        IN  IF reached
            THEN [e EXCEPT !.currentPitch = e.slideTargetPitch, !.slideRate = 0]
            ELSE [e EXCEPT !.currentPitch = cp]
    ELSE e


\* A gate output that follows the pulse generator through the gap.
GateOutputUnforced(e, dt) ==
    LET gp == PulseProcess(e.gatePulse, dt)
        gapPositive == e.retriggerGapRemaining > 0
    IN  [e    |-> [e EXCEPT !.gatePulse = gp.remaining,
                            !.retriggerGapRemaining =
                                IF gapPositive THEN @ - dt ELSE @],
         gateHigh |-> gp.high,
         gapPositive |-> gapPositive,
         gate |-> gp.high]

\* The gate output block of process(): the pulse generator's report, the gap
\* countdown and the level written to OUTPUT_GATE.
GateOutput(e, dt) ==
    LET gp == PulseProcess(e.gatePulse, dt)
        gapPositive == e.retriggerGapRemaining > 0
    IN  [e    |-> [e EXCEPT !.gatePulse = gp.remaining,
                            !.retriggerGapRemaining =
                                IF gapPositive THEN @ - dt ELSE @],
         gateHigh |-> gp.high,
         gapPositive |-> gapPositive,
         gate |-> IF gapPositive THEN FALSE ELSE gp.high]

\* The slide output block of process(): written only while the step index
\* is inside the pattern, otherwise the output keeps its last level.
SlideOutput(e, mp, p, old) ==
    IF e.currentStep >= 0 /\ e.currentStep < p.patternLength
    THEN [reads |-> {e.currentStep},
          slide |-> getStep(mp, e.currentStep, p.density, p.spread,
                            p.accentDensity, p.slideDensity).slide]
    ELSE [reads |-> {}, slide |-> old]

\* The number of samples in the 50 ms glide time, rounded up.
CeilGlideSamples(dt) == (GlideTime + dt - 1) \div dt

\* How many process() calls in a row have advanced the ramp that is being
\* advanced now (counted up to one more than the glide time holds): 0 when
\* the portamento block finds no ramp, 1 in the call that sets one up.
RampSamples(before, ck, dt) ==
    IF ck.e.slideRate = 0 THEN 0
    ELSE IF ck.obs.slideFromPrev THEN 1
    ELSE IF before > CeilGlideSamples(dt) THEN before
    ELSE before + 1

\* process() after its call of updateDisplayPattern(), whose result is disp,
\* with the knobs at p.  The four inputs are the levels of the generate
\* button, the generate input, the reset input and the clock input; seed is
\* the seed generateNewPattern() draws when it runs.  oct is what the octave
\* buttons' block leaves: the two triggers' states, the edges it has seen
\* and the OCTAVE parameter (the call itself has read the parameter before).
ProcessCall(p, disp, genButton, genIn, resetIn, clockIn, seed, oct) ==
    LET gb == SchmittProcess(trig.generateButton, genButton)
        gt == SchmittProcess(trig.generate, genIn)
        rt == SchmittProcess(trig.reset, resetIn)
        ct == SchmittProcess(trig.clock, clockIn)
        generateTriggered == gb.triggered \/ gt.triggered
    IN
    \E mp \in {IF generateTriggered
               THEN generateNewPattern(seed, masterPattern)
               ELSE masterPattern} :
    \E e2 \in {[HandleReset(HandleGenerate(Engine, generateTriggered),
                             rt.triggered)
                    EXCEPT !.timeSinceLastClock = @ + sampleTime]} :
    \E ck \in {IF ct.triggered
               THEN HandleClock(e2, mp, p, sampleTime)
               ELSE [e |-> e2, obs |-> NoCall("process")]} :
    \E e3 \in {ProcessSlide(ck.e)} :
    \E go \in {GateOutput(e3, sampleTime)} :
    \E ap \in {PulseProcess(go.e.accentPulse, sampleTime)} :
    \E so \in {SlideOutput(go.e, mp, p, outputs.slide)} :
        /\ trig' = [generateButton |-> gb.state, generate |-> gt.state,
                    reset |-> rt.state, clock |-> ct.state,
                    octaveUp |-> oct.up, octaveDown |-> oct.down]
        /\ masterPattern' = mp
        /\ currentSeed' = IF generateTriggered THEN seed ELSE currentSeed
        /\ displayPattern' = disp.displayPattern
        /\ cached' = IF generateTriggered
                     THEN [disp.cached EXCEPT !.density = -1]
                     ELSE disp.cached
        /\ forceDisplayRefresh' = FALSE
        /\ currentStep' = go.e.currentStep
        /\ currentSlideActive' = go.e.currentSlideActive
        /\ slideTargetPitch' = go.e.slideTargetPitch
        /\ currentPitch' = go.e.currentPitch
        /\ slideRate' = go.e.slideRate
        /\ timeSinceLastClock' = go.e.timeSinceLastClock
        /\ measuredClockPeriod' = go.e.measuredClockPeriod
        /\ retriggerGapRemaining' = go.e.retriggerGapRemaining
        /\ gatePulse' = go.e.gatePulse
        /\ accentPulse' = ap.remaining
        /\ outputs' = [pitch |-> go.e.currentPitch, gate |-> go.gate,
                       accent |-> ap.high, slide |-> so.slide]
        /\ call' = [ck.obs EXCEPT !.resetRising = rt.triggered,
                                  !.generateTriggered = generateTriggered,
                                  !.stepBefore = currentStep,
                                  !.reads = @ \cup so.reads,
                                  !.gapPositive = go.gapPositive,
                                  !.gateHigh = go.gateHigh,
                                  !.rampSamples =
                                      RampSamples(call.rampSamples, ck,
                                                  sampleTime),
                                  !.octaveUp = oct.upTriggered,
                                  !.octaveDown = oct.downTriggered,
                                  !.octaveBefore = p.octave]
        /\ params' = [p EXCEPT !.octave = oct.octave]
        /\ UNCHANGED <<sampleTime, query>>

\* The build without octave buttons: no such block, no such triggers.
ProcessSample(p, disp, genButton, genIn, resetIn, clockIn, seed) ==
    ProcessCall(p, disp, genButton, genIn, resetIn, clockIn, seed,
                [up |-> trig.octaveUp, down |-> trig.octaveDown,
                 upTriggered |-> FALSE, downTriggered |-> FALSE,
                 octave |-> p.octave])

\* The build with octave buttons: the block runs the up trigger, then the
\* down trigger, on the levels of the two buttons.
ProcessSampleOctave(p, disp, genButton, genIn, resetIn, clockIn, seed, upButton, downButton) ==
    LET ut == SchmittProcess(trig.octaveUp, upButton)
        dt == SchmittProcess(trig.octaveDown, downButton)
    IN  ProcessCall(p, disp, genButton, genIn, resetIn, clockIn, seed,
                    [up |-> ut.state, down |-> dt.state,
                     upTriggered |-> ut.triggered,
                     downTriggered |-> dt.triggered,
                     octave |-> OctaveDown(OctaveUp(p.octave, ut.triggered),
                                           dt.triggered)])

\* The levels an input can take in a sample: pulses are one sample wide, so
\* an input is high only in a sample that finds its trigger low.
Levels(state) == IF state THEN {FALSE} ELSE {FALSE, TRUE}

\* One sample of the audio thread: process() reads the LENGTH knob, wherever
\* the user has turned it since the last sample, and the four inputs.  The
\* clock is silent for MaxClockGap samples at most, and the generate button
\* and the generate input are not pulsed in the same sample.
Process ==
    \E disp \in {updateDisplayPattern(masterPattern, params, cached,
                                      forceDisplayRefresh, displayPattern)} :
    \E len \in 1..MaxPatternLength :
    \E genButton \in Levels(trig.generateButton), genIn \in Levels(trig.generate),
       resetIn \in Levels(trig.reset), clockIn \in Levels(trig.clock) :
        /\ ~(genButton /\ genIn)
        /\ clockIn \/ timeSinceLastClock + sampleTime < MaxClockGap * sampleTime
        /\ \E seed \in (IF genButton \/ genIn THEN Seeds \ {currentSeed}
                         ELSE {currentSeed}) :
               ProcessSample([params EXCEPT !.patternLength = len], disp,
                             genButton, genIn, resetIn, clockIn, seed)

\* No call of the query layer yet.
NoQuery == [op |-> "none"]

\* The module as constructed, but for its master pattern: the knobs at the
\* positions of the patch and the fields at their initialisers.
InitWith(dts, densities) ==
    /\ sampleTime \in dts
    /\ \E len \in 1..MaxPatternLength, d \in densities, sp \in Spreads,
          ad \in AccentDensities, sd \in SlideDensities :
           params = [patternLength |-> len, density |-> d, spread |-> sp,
                     accentDensity |-> ad, slideDensity |-> sd,
                     scale |-> 0, rootNote |-> 0, octave |-> 0]
    /\ trig = [generateButton |-> TRUE, generate |-> TRUE, reset |-> TRUE,
               clock |-> TRUE, octaveUp |-> TRUE, octaveDown |-> TRUE]
    /\ gatePulse = 0
    /\ accentPulse = 0
    /\ currentSeed \in Seeds
    /\ displayPattern = [i \in 0..(MAX_STEPS - 1) |-> RestStep]
    /\ cached = [density |-> -1, spread |-> -1, accentDensity |-> -1,
                 slideDensity |-> -1]
    /\ forceDisplayRefresh = FALSE
    /\ currentStep = -1
    /\ currentSlideActive = FALSE
    /\ slideTargetPitch = 0
    /\ currentPitch = 0
    /\ slideRate = 0
    /\ timeSinceLastClock = 0
    /\ measuredClockPeriod = DefaultClockPeriod
    /\ retriggerGapRemaining = 0
    /\ outputs = [pitch |-> 0, gate |-> FALSE, accent |-> FALSE, slide |-> FALSE]
    /\ call = NoCall("constructor")
    /\ query = NoQuery

\* AcidSeq(): generateNewPattern() on the default-constructed pattern.
ConstructedPattern ==
    masterPattern = generateNewPattern(currentSeed, MasterPatternInit)

Init == InitWith(SampleTimes, Densities) /\ ConstructedPattern

Next == Process

Spec == Init /\ [][Next]_vars

\* The same module run at the sample times that put clock edges on and
\* around the bounds of the period measurement, with the DENSITY knob at 0
\* (every step a rest: the measurement comes before the step is looked at).
InitClock == InitWith(ClockSampleTimes, {0}) /\ ConstructedPattern

SpecClock == InitClock /\ [][Next]_vars

\* The build with octave buttons, with the generate and reset inputs and
\* the LENGTH knob left alone: one sample in which the clock input and the
\* two octave buttons take any level.
ProcessOctave ==
    \E disp \in {updateDisplayPattern(masterPattern, params, cached,
                                      forceDisplayRefresh, displayPattern)} :
    \E len \in {params.patternLength} :
    \E clockIn \in Levels(trig.clock), upButton \in Levels(trig.octaveUp),
       downButton \in Levels(trig.octaveDown) :
        /\ clockIn \/ timeSinceLastClock + sampleTime < MaxClockGap * sampleTime
        /\ ProcessSampleOctave([params EXCEPT !.patternLength = len], disp,
                               FALSE, FALSE, FALSE, clockIn, currentSeed,
                               upButton, downButton)

NextOctave == ProcessOctave

InitOctave == InitWith(SampleTimes, {100}) /\ ConstructedPattern

SpecOctave == InitOctave /\ [][NextOctave]_vars

\* ------------------------------------------------- save and restore

JSON_VERSION == 3

\* The JSON values of a snapshot (jansson): integers, reals, booleans, arrays
\* (sequences) and objects (their members by key).  JsonNull is the null
\* pointer json_object_get and json_array_get return for what is not there.
JsonInteger(n) == [type |-> "integer", value |-> n]
JsonReal(x) == [type |-> "real", value |-> x]
JsonBoolean(b) == [type |-> IF b THEN "true" ELSE "false"]
JsonArray(items) == [type |-> "array", items |-> items]
JsonObject(fields) == [type |-> "object", fields |-> fields]
JsonNull == [type |-> "NULL"]

\* if (xJ): the pointer is not null
Present(j) == j.type # "NULL"

json_object_get(j, key) ==
    IF j.type = "object"
    THEN (IF key \in DOMAIN j.fields THEN j.fields[key] ELSE JsonNull)
    ELSE JsonNull

json_array_size(j) == IF j.type = "array" THEN Len(j.items) ELSE 0

\* json_array_get(j, i), i counted from 0
json_array_get(j, i) ==
    IF j.type = "array"
    THEN (IF i >= 0 /\ i < Len(j.items) THEN j.items[i + 1] ELSE JsonNull)
    ELSE JsonNull

\* 0 for what is not an integer
json_integer_value(j) == IF j.type = "integer" THEN j.value ELSE 0

\* 0.0 (zero, in the units of the field) for what is not a real
json_real_value(j, zero) == IF j.type = "real" THEN j.value ELSE zero

json_boolean_value(j) == j.type = "true"

\* json_integer(currentSeed): the uint32 as a json_int_t
U32Value(x) == x[1] * W16 + x[2]

\* static_cast<uint32_t>(json_integer_value(seedJ))
U32FromInteger(n) == <<(n \div W16) % W16, n % W16>>

\* The fields of an instance that dataToJson reads and dataFromJson writes.
Instance ==
    [currentSeed |-> currentSeed, currentStep |-> currentStep,
     masterPattern |-> masterPattern,
     currentSlideActive |-> currentSlideActive,
     currentPitch |-> currentPitch, slideTargetPitch |-> slideTargetPitch,
     slideRate |-> slideRate]

\* The member "steps" of the saved master pattern.
StepsToJson(mp) ==
    JsonArray([k \in 1..MAX_STEPS |->
        JsonObject([p |-> JsonInteger(mp.steps[k - 1].notePoolIndex),
                    o |-> JsonInteger(mp.steps[k - 1].octave),
                    a |-> JsonReal(mp.steps[k - 1].accentProb),
                    s |-> JsonReal(mp.steps[k - 1].slideProb),
                    m |-> JsonBoolean(mp.muted[k - 1])])])

\* The member "masterPattern" of the snapshot.
MasterToJson(mp) ==
    JsonObject(
        [barActivationOrder |->
            JsonArray([k \in 1..BAR_LEN |->
                          JsonInteger(mp.barActivationOrder[k - 1])]),
         scalePriorityOrder |->
            JsonArray([k \in 1..SCALE_SIZE |->
                          JsonInteger(mp.scalePriorityOrder[k - 1])]),
         steps |-> StepsToJson(mp)])

\* A snapshot that leaves the slide rate out.
dataToJsonWithoutSlideRate(inst) ==
    JsonObject(
        [version |-> JsonInteger(JSON_VERSION),
         seed |-> JsonInteger(U32Value(inst.currentSeed)),
         currentStep |-> JsonInteger(inst.currentStep),
         masterPattern |-> MasterToJson(inst.masterPattern),
         currentSlideActive |-> JsonBoolean(inst.currentSlideActive),
         currentPitch |-> JsonReal(inst.currentPitch),
         slideTargetPitch |-> JsonReal(inst.slideTargetPitch)])

\* dataToJson() of an instance
dataToJson(inst) ==
    JsonObject(
        [version |-> JsonInteger(JSON_VERSION),
         seed |-> JsonInteger(U32Value(inst.currentSeed)),
         currentStep |-> JsonInteger(inst.currentStep),
         masterPattern |-> MasterToJson(inst.masterPattern),
         currentSlideActive |-> JsonBoolean(inst.currentSlideActive),
         currentPitch |-> JsonReal(inst.currentPitch),
         slideTargetPitch |-> JsonReal(inst.slideTargetPitch),
         slideRate |-> JsonReal(inst.slideRate)])

\* The loops over barActivationOrder and scalePriorityOrder: the first
\* min(n, size) entries are overwritten, the others stay as they are.
LoadOrder(old, arrJ, n) ==
    IF Present(arrJ)
    THEN [i \in 0..(n - 1) |->
             IF i < json_array_size(arrJ)
             THEN json_integer_value(json_array_get(arrJ, i))
             ELSE old[i]]
    ELSE old

\* if (xJ) field = value: the value read when the member is there, the
\* field as it was otherwise.
IfPresent(j, value, old) == IF Present(j) THEN value ELSE old

\* The step object's members p, o, a and s stored over a step.
LoadStep(old, stepDataJ) ==
    [notePoolIndex |->
         IfPresent(json_object_get(stepDataJ, "p"),
                   json_integer_value(json_object_get(stepDataJ, "p")),
                   old.notePoolIndex),
     octave |->
         IfPresent(json_object_get(stepDataJ, "o"),
                   json_integer_value(json_object_get(stepDataJ, "o")),
                   old.octave),
     accentProb |->
         IfPresent(json_object_get(stepDataJ, "a"),
                   json_real_value(json_object_get(stepDataJ, "a"),
                                   <<0, 0, 0>>),
                   old.accentProb),
     slideProb |->
         IfPresent(json_object_get(stepDataJ, "s"),
                   json_real_value(json_object_get(stepDataJ, "s"),
                                   <<0, 0, 0>>),
                   old.slideProb)]

\* The loop over the steps: for the first min(64, size) entries, each member
\* that is there is stored.
LoadSteps(mp, stepsJ) ==
    IF Present(stepsJ)
    THEN [mp EXCEPT
            !.steps = [i \in 0..(MAX_STEPS - 1) |->
                IF i < json_array_size(stepsJ)
                THEN LoadStep(mp.steps[i], json_array_get(stepsJ, i))
                ELSE mp.steps[i]],
            !.muted = [i \in 0..(MAX_STEPS - 1) |->
                IF i < json_array_size(stepsJ)
                THEN IfPresent(
                         json_object_get(json_array_get(stepsJ, i), "m"),
                         json_boolean_value(
                             json_object_get(json_array_get(stepsJ, i), "m")),
                         mp.muted[i])
                ELSE mp.muted[i]]]
    ELSE mp

\* The master pattern once the member "masterPattern" has been loaded over it.
LoadMaster(mp, masterJ) ==
    LoadSteps([mp EXCEPT
                  !.barActivationOrder =
                      LoadOrder(@, json_object_get(masterJ,
                                                   "barActivationOrder"),
                                BAR_LEN),
                  !.scalePriorityOrder =
                      LoadOrder(@, json_object_get(masterJ,
                                                   "scalePriorityOrder"),
                                SCALE_SIZE)],
              json_object_get(masterJ, "steps"))

\* A restore that loads the pattern whenever there is one, whatever the
\* version.
PatternLoadedAnyVersion(rootJ) ==
    Present(json_object_get(rootJ, "masterPattern"))

\* int version = versionJ ? json_integer_value(versionJ) : 0
VersionOf(rootJ) ==
    IF Present(json_object_get(rootJ, "version"))
    THEN json_integer_value(json_object_get(rootJ, "version"))
    ELSE 0

\* Whether dataFromJson loads the pattern of the snapshot.
PatternLoaded(rootJ) ==
    /\ Present(json_object_get(rootJ, "masterPattern"))
    /\ VersionOf(rootJ) >= 2

\* The seed dataFromJson leaves: that of the snapshot when it has one.
RestoredSeed(rootJ, inst) ==
    IfPresent(json_object_get(rootJ, "seed"),
              U32FromInteger(json_integer_value(json_object_get(rootJ, "seed"))),
              inst.currentSeed)

\* A pitch or rate member of the snapshot's root.
RestoredReal(rootJ, key, old) ==
    IfPresent(json_object_get(rootJ, key),
              json_real_value(json_object_get(rootJ, key), 0), old)

\* The fallback of a restore that clears the mutes as a generate edge does.
RestoreFallbackClearingMutes(seed, mp) == generateNewPattern(seed, mp)

\* The fallback of dataFromJson: generateMaster on the pattern as it is.
RestoreFallback(seed, mp) == generateMaster(seed, mp)

\* dataFromJson(rootJ) on an instance: the fields it leaves.
dataFromJson(rootJ, inst) ==
    [currentSeed |-> RestoredSeed(rootJ, inst),
     currentStep |->
         IfPresent(json_object_get(rootJ, "currentStep"),
                   json_integer_value(json_object_get(rootJ, "currentStep")),
                   inst.currentStep),
     masterPattern |->
         IF PatternLoaded(rootJ)
         THEN LoadMaster(inst.masterPattern,
                         json_object_get(rootJ, "masterPattern"))
         ELSE RestoreFallback(RestoredSeed(rootJ, inst), inst.masterPattern),
     currentSlideActive |->
         IfPresent(json_object_get(rootJ, "currentSlideActive"),
                   json_boolean_value(json_object_get(rootJ,
                                                      "currentSlideActive")),
                   inst.currentSlideActive),
     currentPitch |-> RestoredReal(rootJ, "currentPitch", inst.currentPitch),
     slideTargetPitch |->
         RestoredReal(rootJ, "slideTargetPitch", inst.slideTargetPitch),
     slideRate |-> RestoredReal(rootJ, "slideRate", inst.slideRate)]

\* The object j without the members named in keys.
Without(j, keys) ==
    JsonObject([k \in (DOMAIN j.fields) \ keys |-> j.fields[k]])

\* The object j with member key set to v.
With(j, key, v) ==
    JsonObject([k \in (DOMAIN j.fields) \cup {key} |->
                   IF k = key THEN v ELSE j.fields[k]])

\* The first n items of an array.
Truncated(arrJ, n) == JsonArray(SubSeq(arrJ.items, 1, n))

\* An instance as its constructor leaves it.
Constructed(seed) ==
    [currentSeed |-> seed, currentStep |-> -1,
     masterPattern |-> generateNewPattern(seed, MasterPatternInit),
     currentSlideActive |-> FALSE, currentPitch |-> 0,
     slideTargetPitch |-> 0, slideRate |-> 0]

\* The snapshots handed to dataFromJson; fresh[seed] is an instance as
\* constructed with that seed, whose snapshot the edited ones start from:
\*   saved         what dataToJson writes of the running instance
\*   noPattern     a snapshot of seed and step only, with no masterPattern
\*   version1      a snapshot of schema version 1 (its pattern is not read)
\*   noVersion     a snapshot with no version member
\*   shortArrays   a pattern whose arrays hold 3, 2 and 1 entries
\*   outOfRange    a step of 100, an activation entry of 16, a priority
\*                 entry of 7 and a note pool index of 7
\*   missingFields a pattern of steps without mutes and nothing else
SnapshotKinds ==
    {"saved", "noPattern", "version1", "noVersion", "shortArrays",
     "outOfRange", "missingFields"}

Snapshot(kind, seed, fresh) ==
    LET saved == dataToJson(Instance)
        other == dataToJson(fresh[seed])
        master == other.fields.masterPattern
    IN  CASE kind = "saved" -> saved
          [] kind = "noPattern" -> Without(other, {"masterPattern"})
          [] kind = "version1" ->
                With(With(saved, "seed", JsonInteger(U32Value(seed))),
                     "version", JsonInteger(1))
          [] kind = "noVersion" ->
                Without(With(saved, "seed", JsonInteger(U32Value(seed))),
                        {"version"})
          [] kind = "shortArrays" ->
                With(other, "masterPattern",
                     JsonObject(
                        [barActivationOrder |->
                            Truncated(master.fields.barActivationOrder, 3),
                         scalePriorityOrder |->
                            Truncated(master.fields.scalePriorityOrder, 2),
                         steps |-> Truncated(master.fields.steps, 1)]))
          [] kind = "outOfRange" ->
                [other EXCEPT
                    !.fields.currentStep = JsonInteger(100),
                    !.fields.masterPattern.fields.barActivationOrder.items[1]
                        = JsonInteger(16),
                    !.fields.masterPattern.fields.scalePriorityOrder.items[2]
                        = JsonInteger(7),
                    !.fields.masterPattern.fields.steps.items[1].fields.p
                        = JsonInteger(7)]
          [] kind = "missingFields" ->
                JsonObject(
                    [version |-> JsonInteger(JSON_VERSION),
                     masterPattern |->
                        JsonObject(
                            [steps |->
                                JsonArray([k \in 1..MAX_STEPS |->
                                    Without(master.fields.steps.items[k],
                                            {"m"})])])])

\* The instance a snapshot is restored into: the running one (a preset
\* loaded, an undo) or one just constructed (a patch opened), whose
\* constructor drew another seed than the snapshot's.
RestoreTargets == {"this", "constructed"}

\* dataFromJson(rootJ), once in a behaviour: the fields it writes, with
\* cachedDensity = -1; a constructed instance has every other field at its
\* initialiser.
Restore ==
    /\ query.op = "none"
    /\ \E kind \in SnapshotKinds, seed \in Seeds, target \in RestoreTargets :
       \E constructed \in Seeds \ {seed} :
       \E fresh \in {[s \in Seeds |-> Constructed(s)]} :
       \E rootJ \in {Snapshot(kind, seed, fresh)} :
       \E inst \in {IF target = "this" THEN Instance
                    ELSE fresh[constructed]} :
       \E r \in {dataFromJson(rootJ, inst)} :
           /\ currentSeed' = r.currentSeed
           /\ currentStep' = r.currentStep
           /\ masterPattern' = r.masterPattern
           /\ currentSlideActive' = r.currentSlideActive
           /\ currentPitch' = r.currentPitch
           /\ slideTargetPitch' = r.slideTargetPitch
           /\ slideRate' = r.slideRate
           /\ IF target = "this"
              THEN /\ cached' = [cached EXCEPT !.density = -1]
                   /\ UNCHANGED <<trig, gatePulse, accentPulse, displayPattern,
                                  forceDisplayRefresh, timeSinceLastClock,
                                  measuredClockPeriod, retriggerGapRemaining,
                                  outputs>>
              ELSE /\ cached' = [density |-> -1, spread |-> -1,
                                 accentDensity |-> -1, slideDensity |-> -1]
                   /\ trig' = [generateButton |-> TRUE, generate |-> TRUE,
                               reset |-> TRUE, clock |-> TRUE,
                               octaveUp |-> TRUE, octaveDown |-> TRUE]
                   /\ gatePulse' = 0
                   /\ accentPulse' = 0
                   /\ displayPattern' = [i \in 0..(MAX_STEPS - 1) |-> RestStep]
                   /\ forceDisplayRefresh' = FALSE
                   /\ timeSinceLastClock' = 0
                   /\ measuredClockPeriod' = DefaultClockPeriod
                   /\ retriggerGapRemaining' = 0
                   /\ outputs' = [pitch |-> 0, gate |-> FALSE,
                                  accent |-> FALSE, slide |-> FALSE]
           /\ call' = [kind |-> kind, target |-> target,
                       loaded |-> PatternLoaded(rootJ),
                       snapshotSeed |-> RestoredSeed(rootJ, inst),
                       seedBefore |-> inst.currentSeed,
                       mutedBefore |-> {i \in 0..(MAX_STEPS - 1) :
                                           inst.masterPattern.muted[i]}]
                      @@ NoCall("dataFromJson")
           /\ query' = [op |-> "dataFromJson"]
           /\ UNCHANGED <<sampleTime, params>>

\* The steps muted in the running instance at first (a patch restored
\* them); a generate edge clears them.
RestoreMuted == {5}

\* The running instance: a pattern of MaxPatternLength steps generated from
\* the seed, with the mutes of the patch.
InitRestore ==
    /\ InitWith(SampleTimes, {100})
    /\ params.patternLength = MaxPatternLength
    /\ masterPattern =
           [generateMaster(currentSeed, MasterPatternInit)
               EXCEPT !.muted = [i \in 0..(MAX_STEPS - 1) |->
                                    i \in RestoreMuted]]

\* One sample of the audio thread with the LENGTH knob and the generate
\* input left alone; the generate button is pressed before the restore only.
ProcessRestore ==
    \E disp \in {updateDisplayPattern(masterPattern, params, cached,
                                      forceDisplayRefresh, displayPattern)} :
    \E genButton \in Levels(trig.generateButton),
       resetIn \in Levels(trig.reset), clockIn \in Levels(trig.clock) :
        /\ genButton => query.op = "none"
        /\ clockIn \/ timeSinceLastClock + sampleTime < MaxClockGap * sampleTime
        /\ \E seed \in (IF genButton THEN Seeds \ {currentSeed}
                         ELSE {currentSeed}) :
               ProcessSample(params, disp, genButton, FALSE, resetIn, clockIn,
                             seed)

\* The steps the display asks for once a restore has returned.
RestoreQuerySteps == {0, 5}

\* getStep on the restored pattern, under the knobs as they are: a read.
QueryRestored ==
    /\ call.op = "dataFromJson"
    /\ \E step \in RestoreQuerySteps :
           call' = [step |-> step,
                    result |-> getStep(masterPattern, step, params.density,
                                       params.spread, params.accentDensity,
                                       params.slideDensity)]
                   @@ NoCall("getStep")
    /\ UNCHANGED <<sampleTime, params, trig, gatePulse, accentPulse,
                   masterPattern, displayPattern, cached, forceDisplayRefresh,
                   currentStep, currentSlideActive, slideTargetPitch,
                   currentPitch, slideRate, timeSinceLastClock,
                   measuredClockPeriod, retriggerGapRemaining, currentSeed,
                   outputs, query>>

NextRestore == ProcessRestore \/ Restore \/ QueryRestored

SpecRestore == InitRestore /\ [][NextRestore]_vars

\* ------------------------------------------------------- the query layer

\* Knob positions (percent) at which the query layer is called: the ends,
\* and values on both sides of a change of the rounded count.
QueryDensities == {0, 3, 4, 9, 10, 25, 50, 97, 100}
QuerySpreads == {0, 7, 8, 21, 22, 50, 93, 100}
QueryStepDensities == {0, 25, 100}
QueryStepSpreads == {0, 50, 100}
QueryAccentDensities == {0, 65, 100}
QuerySlideDensities == {0, 50, 100}

\* The mute masks a pattern comes with (dataFromJson restores them).
MutedSets == {{}, {0}, {5, 17}}

\* The module with its master pattern generated from the seed and the mutes
\* of a restored patch.
InitQuery ==
    /\ InitWith(SampleTimes, {100})
    /\ \E m \in MutedSets :
           masterPattern =
               [generateMaster(currentSeed, MasterPatternInit)
                    EXCEPT !.muted = [i \in 0..(MAX_STEPS - 1) |-> i \in m]]

\* The variables the query layer does not touch.
playbackVars ==
    <<sampleTime, params, trig, gatePulse, accentPulse, displayPattern, cached,
      forceDisplayRefresh, currentStep, currentSlideActive, slideTargetPitch,
      currentPitch, slideRate, timeSinceLastClock, measuredClockPeriod,
      retriggerGapRemaining, outputs, call>>

\* A query is made of a pattern that has just been restored or generated.
QueryReady == query.op \in {"none", "generateMaster", "generateDrawn"}

\* masterPattern.getStep(step, density, spread, accentsDensity, slidesDensity)
QueryGetStep ==
    /\ QueryReady
    /\ \E step \in 0..(MAX_STEPS - 1), d \in QueryStepDensities,
          sp \in QueryStepSpreads, ad \in QueryAccentDensities,
          sd \in QuerySlideDensities :
           query' = [op |-> "getStep", step |-> step, density |-> d,
                     spread |-> sp, accentDensity |-> ad, slideDensity |-> sd,
                     result |-> getStep(masterPattern, step, d, sp, ad, sd)]
    /\ UNCHANGED <<playbackVars, masterPattern, currentSeed>>

\* masterPattern.isStepActive(step, density) at two densities d1 <= d2
QueryIsStepActive ==
    /\ QueryReady
    /\ \E step \in 0..(MAX_STEPS - 1), d1 \in QueryDensities,
          d2 \in QueryDensities :
           /\ d1 <= d2
           /\ query' = [op |-> "isStepActive", step |-> step,
                        density1 |-> d1, density2 |-> d2,
                        active1 |-> isStepActive(masterPattern, step, d1),
                        active2 |-> isStepActive(masterPattern, step, d2)]
    /\ UNCHANGED <<playbackVars, masterPattern, currentSeed>>

\* masterPattern.getScaleDegree(step, spread) at two spreads s1 <= s2
QueryGetScaleDegree ==
    /\ QueryReady
    /\ \E step \in 0..(MAX_STEPS - 1), s1 \in QuerySpreads,
          s2 \in QuerySpreads :
           /\ s1 <= s2
           /\ query' = [op |-> "getScaleDegree", step |-> step,
                        spread1 |-> s1, spread2 |-> s2,
                        degree1 |-> getScaleDegree(masterPattern, step, s1),
                        degree2 |-> getScaleDegree(masterPattern, step, s2)]
    /\ UNCHANGED <<playbackVars, masterPattern, currentSeed>>

\* generateMaster(seed, masterPattern) on the pattern as it is.
ApplyGenerateMaster ==
    /\ QueryReady
    /\ \E seed \in Seeds :
           /\ masterPattern' = generateMaster(seed, masterPattern)
           /\ currentSeed' = seed
           /\ query' = [op |-> "generateMaster", seed |-> seed,
                        previousSeed |-> currentSeed,
                        previousMuted |-> masterPattern.muted]
    /\ UNCHANGED playbackVars

\* rng.next() is a binary32 in [0, 1), and among the 2^32 seeds there are
\* seeds whose draws repeat a value.  The values the 7 + 16 weight draws of
\* such a seed take: a at the even places and b at the odd ones.
DrawnWeights == {<<0, 0, 0>>, FloatHalf}

DrawnVector(a, b, n) == [k \in 1..n |-> IF k % 2 = 1 THEN a ELSE b]

\* generateMaster with the scale weights vs and the bar weights vb drawn:
\* both are boosted, sorted and stored.  The step content, drawn after the
\* weights, is left as the pattern has it.
generateMasterDrawn(output, vs, vb) ==
    generateMasterStore(output,
                        BubbleSort(WeightedScale(vs), 0, SCALE_SIZE),
                        BubbleSort(WeightedBarSteps(vb), 0, BAR_LEN),
                        [k \in 1..MAX_STEPS |-> output.steps[k - 1]])

\* generateMaster on the pattern as it is, for a seed with repeating draws.
ApplyGenerateDrawn ==
    /\ QueryReady
    /\ \E a \in DrawnWeights, b \in DrawnWeights :
           /\ a = FloatHalf \/ b = FloatHalf
           /\ masterPattern' =
                  generateMasterDrawn(masterPattern,
                                      DrawnVector(a, b, SCALE_SIZE),
                                      DrawnVector(a, b, BAR_LEN))
           /\ query' = [op |-> "generateDrawn", first |-> a, second |-> b]
    /\ UNCHANGED <<playbackVars, currentSeed>>

\* Seeds at which the range of a draw is looked at: the seeds above and
\* 0xAAAAAAAA, for which the first t of next() is 3 * seed + 1 = 2^32 - 1.
RangeSeeds == Seeds \cup {U32(43690, 43690)}

\* SFC32 rng(seed) followed by one call: next(), randomInt(0, SCALE_SIZE - 1)
\* or randomInt(-1, 1).
QueryNext ==
    /\ QueryReady
    /\ \E seed \in RangeSeeds :
           query' = [op |-> "next", seed |-> seed,
                     value |-> SFC32Next(SFC32Init(seed)).value,
                     poolIndex |-> RandomInt(SFC32Init(seed), 0,
                                             SCALE_SIZE - 1).int,
                     octave |-> RandomInt(SFC32Init(seed), -1, 1).int]
    /\ UNCHANGED <<playbackVars, masterPattern, currentSeed>>

\* A seed in whose generation a draw for the step content has
\* t >= 2^32 - 128 (225197: the octave draw of step 8).
OutlierSeeds == {U32Of(225197)}

GeneratedOutliers == GeneratedFor(OutlierSeeds)

\* generateMaster(seed, pattern) on a fresh pattern, and one of the step
\* descriptors it has written.
QueryDescriptor ==
    /\ QueryReady
    /\ \E seed \in Seeds \cup OutlierSeeds, step \in 0..(MAX_STEPS - 1) :
           query' = [op |-> "descriptor", seed |-> seed, step |-> step,
                     descriptor |->
                         (Generated @@ GeneratedOutliers)[seed].steps[step]]
    /\ UNCHANGED <<playbackVars, masterPattern, currentSeed>>

NextQuery ==
    \/ QueryGetStep
    \/ QueryIsStepActive
    \/ QueryGetScaleDegree
    \/ ApplyGenerateMaster
    \/ ApplyGenerateDrawn
    \/ QueryNext
    \/ QueryDescriptor

SpecQuery == InitQuery /\ [][NextQuery]_vars

\* ------------------------------------------------------------ properties

\* C1: on every clock rising edge the step index becomes old + 1 when
\* old + 1 is below the pattern length and 0 otherwise, old being the index
\* the edge finds (-1 before the first edge and after a reset): -1 goes to
\* 0, L - 1 wraps to 0, and an index the LENGTH knob has been turned below
\* goes to 0 on the very next edge.
StepAdvancesAndWraps ==
    [][call'.clockRising =>
        LET old == IF call'.resetRising THEN -1 ELSE currentStep
        IN  currentStep' = IF old + 1 < params'.patternLength
                           THEN old + 1 ELSE 0]_vars

\* An edge that found the step index at or past the pattern length (the
\* knob was turned down since the last edge) and put it at 0.
StepWrappedAfterShrink ==
    /\ call.clockRising /\ ~call.resetRising
    /\ call.stepBefore >= params.patternLength
    /\ currentStep = 0

\* C2: every index process() uses to read the master pattern (the current
\* step on the edge, the previous step, the current step read for the slide
\* output) lies in 0 .. L - 1, hence in 0 .. 63, after any clock, reset and
\* generate edges and turns of the LENGTH knob.
ReadIndicesInPattern ==
    /\ call.reads \subseteq 0..(params.patternLength - 1)
    /\ call.reads \subseteq 0..(MAX_STEPS - 1)

\* An edge that found the step index at or past the pattern length and
\* landed on a note: the current, the previous and the slide-output reads
\* are all of step 0.
ReadsOnEdgeAfterShrink ==
    /\ call.clockRising /\ ~call.resetRising /\ call.isNote
    /\ call.stepBefore >= params.patternLength
    /\ call.reads = {0}

\* C3: a reset edge puts the step index at -1, clears the sliding flag and
\* the retrigger gap; the index stays at -1 until a clock edge, which puts
\* it at 0; and a clock edge in the same sample as the reset is handled
\* after it, so that sample ends at step 0.
ResetStopsThenClockStartsAtZero ==
    [][/\ call'.resetRising /\ ~call'.clockRising =>
            /\ currentStep' = -1
            /\ ~currentSlideActive'
            /\ retriggerGapRemaining' = 0
       /\ call'.resetRising /\ call'.clockRising => currentStep' = 0
       /\ currentStep = -1 /\ call'.clockRising => currentStep' = 0
       /\ currentStep = -1 /\ ~call'.clockRising => currentStep' = -1]_vars

\* A reset and a clock edge in one sample of a two-step pattern that was at
\* step 0: without the reset the edge would have gone to step 1.
ResetAndClockInOneSample ==
    /\ call.resetRising /\ call.clockRising
    /\ call.stepBefore = 0 /\ params.patternLength = 2
    /\ currentStep = 0

\* C4: after a reset edge (with no clock edge in the same sample to set up a
\* new ramp) no portamento ramp is in progress: the slide rate is 0.
ResetClearsSlideRate ==
    call.resetRising /\ ~call.clockRising => slideRate = 0

\* C5 as amended: on every clock edge the period estimate becomes the time
\* elapsed since the previous edge when that time lies strictly between
\* 10 ms and 2 s, and is left unchanged otherwise (at exactly 10 ms and at
\* exactly 2 s too); the elapsed-time counter restarts from 0 on every edge.
PeriodAdoptedStrictlyInsideBounds ==
    [][call'.clockRising =>
        LET t == timeSinceLastClock + sampleTime
        IN  /\ measuredClockPeriod' =
                    IF ClockPeriodMin < t /\ t < ClockPeriodMax
                    THEN t ELSE measuredClockPeriod
            /\ timeSinceLastClock' = 0]_vars

\* An edge exactly 10 ms after the previous one, which had set the estimate
\* to 15 ms: the estimate is still 15 ms.
EdgeAtLowerBoundDiscarded ==
    /\ call.clockRising /\ call.elapsed = ClockPeriodMin
    /\ measuredClockPeriod = Ms(15) /\ timeSinceLastClock = 0

\* C5 as stated: the elapsed time is adopted when it lies in [10 ms, 2 s],
\* both bounds included.
PeriodAdoptedWithinInclusiveBounds ==
    [][call'.clockRising =>
        LET t == timeSinceLastClock + sampleTime
        IN  /\ measuredClockPeriod' =
                    IF ClockPeriodMin <= t /\ t <= ClockPeriodMax
                    THEN t ELSE measuredClockPeriod
            /\ timeSinceLastClock' = 0]_vars

\* C6 as amended: a clock edge on a note that is slid into starts no
\* retrigger gap, arms no accent pulse and does not snap the pitch (in that
\* sample the pitch moves by one sample's share of the distance at most);
\* it sets the slide target to the note's voltage and the slide rate to
\* (target - current pitch) divided by the number of samples in 50 ms,
\* which has the sign of that difference and is zero when the target
\* equals the current pitch; the gate is re-armed, to period x 1.1, only if
\* the new step is itself slide-flagged.
SlideInSetsRampWithoutRetrigger ==
    [][call'.clockRising /\ call'.isNote /\ call'.slideFromPrev =>
        LET d == call'.pitchVoltage - currentPitch
            moved == currentPitch' - currentPitch
            Abs(x) == IF x < 0 THEN -x ELSE x
            Decay(x) == IF x > 0 THEN x - sampleTime ELSE x
        IN  /\ ~call'.gapArmed /\ ~call'.gapPositive
            /\ retriggerGapRemaining' =
                    IF call'.resetRising THEN 0 ELSE retriggerGapRemaining
            /\ outputs'.gate = call'.gateHigh
            /\ call'.accentTrig = 0
            /\ accentPulse' = Decay(accentPulse)
            /\ slideTargetPitch' = call'.pitchVoltage
            /\ call'.rateSet * (GlideTime \div sampleTime) = d * GlideTime
            /\ (call'.rateSet > 0) = (d > 0)
            /\ (call'.rateSet < 0) = (d < 0)
            /\ slideRate' \in {call'.rateSet, 0}
            /\ moved * d >= 0
            /\ 2 * GlideTime * Abs(moved) <= 2 * Abs(call'.rateSet) + GlideTime
            /\ IF call'.stepSlide
               THEN /\ 10 * call'.gateTrig = 11 * measuredClockPeriod'
                    /\ gatePulse' = Decay(IF call'.gateTrig > gatePulse
                                          THEN call'.gateTrig ELSE gatePulse)
               ELSE /\ call'.gateTrig = 0
                    /\ gatePulse' = Decay(gatePulse)]_vars

\* A slide down into a slide-flagged note: the ramp is under way, the gate
\* has been re-armed and the pitch has not reached the target.
SlideDownIntoTiedNote ==
    /\ call.clockRising /\ call.slideFromPrev /\ call.stepSlide
    /\ call.rateSet < 0 /\ slideRate = call.rateSet
    /\ slideTargetPitch = call.pitchVoltage
    /\ currentPitch > slideTargetPitch
    /\ gatePulse > 0

\* C6 as stated: the slide rate set on a slide-in is never zero.
SlideInSetsNonZeroRate ==
    call.clockRising /\ call.isNote /\ call.slideFromPrev => call.rateSet # 0

\* C7: a clock edge on a note that is not slid into puts the pitch, the
\* slide target and the pitch output at the note's voltage in that sample
\* with slide rate 0, arms the gate pulse with period x 1.1 if the step is
\* slide-flagged and with 20 ms otherwise, and arms the accent pulse, with
\* that same length, if and only if the step is accent-flagged.
AttackSetsPitchGateAndAccent ==
    [][call'.clockRising /\ call'.isNote /\ ~call'.slideFromPrev =>
        LET Decay(x) == IF x > 0 THEN x - sampleTime ELSE x
            Longest(x, y) == IF y > x THEN y ELSE x
        IN  /\ currentPitch' = call'.pitchVoltage
            /\ slideTargetPitch' = call'.pitchVoltage
            /\ outputs'.pitch = call'.pitchVoltage
            /\ slideRate' = 0
            /\ IF call'.stepSlide
               THEN 10 * call'.gateTrig = 11 * measuredClockPeriod'
               ELSE call'.gateTrig = ShortGateTime
            /\ gatePulse' = Decay(Longest(gatePulse, call'.gateTrig))
            /\ IF call'.stepAccent
               THEN /\ call'.accentTrig = call'.gateTrig
                    /\ accentPulse' = Decay(Longest(accentPulse, call'.gateTrig))
               ELSE /\ call'.accentTrig = 0
                    /\ accentPulse' = Decay(accentPulse)]_vars

\* An attack on a slide-flagged, accented note: both pulses run with the
\* long gate time less the sample that has passed.
AttackOnAccentedTiedNote ==
    /\ call.clockRising /\ call.isNote /\ ~call.slideFromPrev
    /\ call.stepSlide /\ call.stepAccent
    /\ call.gateTrig > ShortGateTime
    /\ gatePulse = call.gateTrig - sampleTime
    /\ accentPulse = gatePulse
    /\ currentPitch = call.pitchVoltage /\ slideRate = 0

\* C8: when a note that is not slid into attacks on a clock edge while the
\* gate pulse is still running, the gate output, high in the sample before,
\* is low in the sample of the attack although the pulse generator reports
\* high, and is high again in the sample after the gap; and in every sample
\* that finds the gap countdown positive the gate output is low.
RetriggerGapForcesGateLow ==
    [][/\ (/\ call'.clockRising /\ call'.isNote /\ ~call'.slideFromPrev
           /\ gatePulse > 0)
          => /\ call'.gapArmed /\ call'.gapPositive /\ call'.gateHigh
             /\ outputs.gate /\ ~outputs'.gate
       /\ call'.gapPositive => ~outputs'.gate
       /\ (call.gapArmed /\ retriggerGapRemaining <= 0) => outputs'.gate]_vars

\* The sample of an attack that found the gate pulse running: the pulse
\* generator reports high, the countdown was positive, the output is low.
GateLowInRetriggerGap ==
    /\ call.clockRising /\ call.isNote /\ ~call.slideFromPrev
    /\ call.gapArmed /\ call.gapPositive /\ call.gateHigh
    /\ ~outputs.gate /\ gatePulse > 0

\* C9: the ramp ends within the number of samples in the 50 ms glide time
\* (rounded up): a ramp that has been advanced in that many samples since
\* the clock edge that set it up has reached its target, with slide rate 0.
RampEndsWithinGlideTime ==
    call.rampSamples >= CeilGlideSamples(sampleTime) =>
        slideRate = 0 /\ currentPitch = slideTargetPitch

\* C10: a clock edge on a step that resolves to a rest clears the sliding
\* flag, arms no gate pulse, accent pulse or retrigger gap, and leaves the
\* slide target, the pitch and the slide rate as it found them: a pitch at
\* rest is held, and a ramp in flight is advanced in that sample by the
\* portamento block as in any other.
RestEdgeOnlyClearsSlidingFlag ==
    [][call'.clockRising /\ ~call'.isNote =>
        LET Decay(x) == IF x > 0 THEN x - sampleTime ELSE x
            ramp == ProcessSlide(Engine)
        IN  /\ ~currentSlideActive'
            /\ call'.gateTrig = 0 /\ call'.accentTrig = 0 /\ ~call'.gapArmed
            /\ gatePulse' = Decay(gatePulse)
            /\ accentPulse' = Decay(accentPulse)
            /\ retriggerGapRemaining' =
                    IF call'.resetRising THEN 0 ELSE retriggerGapRemaining
            /\ slideTargetPitch' = slideTargetPitch
            /\ currentPitch' = ramp.currentPitch
            /\ slideRate' = ramp.slideRate
            /\ slideRate = 0 => currentPitch' = currentPitch /\ slideRate' = 0
            /\ outputs'.pitch = currentPitch']_vars

\* A rest edge in the middle of a ramp: the ramp is still running after it.
RampRunsAcrossRestEdge ==
    /\ call.clockRising /\ ~call.isNote
    /\ call.rampSamples > 1
    /\ slideRate # 0 /\ currentPitch # slideTargetPitch
    /\ ~currentSlideActive

\* C11: on every clock edge that lands on a note the slide-in decision
\* equals the sliding flag recorded at the previous edge (false before the
\* first edge and after a reset), whatever changed between the two edges.
SlideInEqualsRecordedFlag ==
    [][call'.clockRising /\ call'.isNote =>
        (call'.slideFromPrev = (~call'.resetRising /\ currentSlideActive))]_vars

\* C12: after every process() call the slide output is high exactly when a
\* step is playing (the step index is inside the pattern) and that step
\* resolves, under the knobs of that call, to a note with slide active; it
\* is low after a reset and when the index is outside the pattern length.
SlideOutputFollowsCurrentStep ==
    call.op = "process" =>
        outputs.slide =
            (/\ currentStep >= 0
             /\ currentStep < params.patternLength
             /\ getStep(masterPattern, currentStep, params.density,
                        params.spread, params.accentDensity,
                        params.slideDensity).slide)

\* C13: every clock edge that lands on a note resolved as accent-active
\* arms an accent pulse, so the accent output is high in that sample,
\* whether the note is attacked or slid into.
AccentedNotePulsesAccent ==
    call.clockRising /\ call.isNote /\ call.stepAccent =>
        outputs.accent /\ call.accentTrig > 0

\* C14: whenever a clock edge finds the note slid into, the gate pulse
\* armed at the previous step is still running at that edge and the gate
\* output was high in the sample before it: no low gate between the steps.
SlideInFindsGateHigh ==
    [][call'.clockRising /\ call'.isNote /\ call'.slideFromPrev =>
        gatePulse > 0 /\ outputs.gate]_vars

\* C15: getStep of a muted step is a rest with accent and slide false, at
\* every density, spread, accent density and slide density.
MutedStepIsRest ==
    query.op = "getStep" /\ masterPattern.muted[query.step] =>
        /\ query.result.note < 0
        /\ ~query.result.accent
        /\ ~query.result.slide

\* A muted step queried with every knob at 100, where an unmuted step is a
\* note with accent and slide.
MutedStepQueriedAtFullKnobs ==
    /\ query.op = "getStep" /\ query.step = 17
    /\ masterPattern.muted[17]
    /\ query.density = 100 /\ query.spread = 100
    /\ query.accentDensity = 100 /\ query.slideDensity = 100
    /\ query.result = RestStep

\* C16: density is monotone, a step active at d1 is active at any d2 >= d1;
\* and a step is active at density d exactly when its bar position is among
\* the first round(16 * d / 100) entries of barActivationOrder.
DensityIsMonotone ==
    query.op = "isStepActive" =>
        LET AmongFirst(d) ==
                \E i \in 0..15 :
                    /\ i < (16 * d + 50) \div 100
                    /\ masterPattern.barActivationOrder[i] = query.step % 16
        IN  /\ query.active1 => query.active2
            /\ query.active1 = AmongFirst(query.density1)
            /\ query.active2 = AmongFirst(query.density2)

\* A step that is a rest at density 9 (one position active) and active at
\* density 10 (two positions active).
StepActivatedByDensity ==
    /\ query.op = "isStepActive"
    /\ query.density1 = 9 /\ query.density2 = 10
    /\ ~query.active1 /\ query.active2
    /\ query.step >= 16

\* C17: on a generated pattern, a step that is not muted resolves to a
\* note at density 100, at every spread, and to a rest at density 0.
FullDensityAllNotesZeroDensityAllRests ==
    query.op = "getStep" /\ ~masterPattern.muted[query.step] =>
        /\ query.density = 100 => query.result.note >= 0
        /\ query.density = 0 => query.result.note < 0

\* A step outside the pool of spread 0, queried at density 100 in a pattern
\* without mutes: it resolves to the root.
StepOutsidePoolIsNoteAtFullDensity ==
    /\ query.op = "getStep"
    /\ \A i \in 0..(MAX_STEPS - 1) : ~masterPattern.muted[i]
    /\ query.density = 100 /\ query.spread = 0
    /\ masterPattern.steps[query.step].notePoolIndex > 0
    /\ query.result.note = masterPattern.scalePriorityOrder[0]

\* C18: with spreadCount = max(1, round(7 * spread / 100)) the degree a
\* step resolves to is its own entry of scalePriorityOrder when its
\* notePoolIndex is below spreadCount and entry 0 otherwise, hence one of
\* the first spreadCount entries; the entries resolvable at s1 are
\* resolvable at any s2 >= s1; at spread 0 every step resolves to entry 0.
SpreadIsMonotone ==
    query.op = "getScaleDegree" =>
        LET order == masterPattern.scalePriorityOrder
            index == masterPattern.steps[query.step].notePoolIndex
            Count(sp) == IF (7 * sp + 50) \div 100 < 1 THEN 1
                         ELSE (7 * sp + 50) \div 100
            Pool(sp) == {order[i] : i \in 0..(Count(sp) - 1)}
            Degree(sp) == IF index < Count(sp) THEN order[index] ELSE order[0]
        IN  /\ query.degree1 = Degree(query.spread1)
            /\ query.degree2 = Degree(query.spread2)
            /\ query.degree1 \in Pool(query.spread1)
            /\ query.degree2 \in Pool(query.spread2)
            /\ Pool(query.spread1) \subseteq Pool(query.spread2)
            /\ query.degree1 \in Pool(query.spread2)
            /\ query.spread1 = 0 => query.degree1 = order[0]

\* A step of pool index 1: quantized to the root at spread 21 (a pool of
\* one), resolved to its own degree at spread 22 (a pool of two).
StepEntersPoolWithSpread ==
    /\ query.op = "getScaleDegree"
    /\ query.spread1 = 21 /\ query.spread2 = 22
    /\ masterPattern.steps[query.step].notePoolIndex = 1
    /\ query.degree1 = masterPattern.scalePriorityOrder[0]
    /\ query.degree2 = masterPattern.scalePriorityOrder[1]
    /\ query.degree1 # query.degree2

\* C19: generateMaster(S) run on the pattern as it is and run on a
\* default-constructed pattern give the same barActivationOrder, the same
\* scalePriorityOrder and the same 64 step descriptors, and these are what
\* the pattern holds afterwards.
GenerationDependsOnSeedOnly ==
    [][query'.op = "generateMaster" =>
        \A fresh \in {generateMasterScale(MasterPatternInit,
                           DrawN(SFC32Init(query'.seed), SCALE_SIZE))} :
        \A again \in {generateMasterScale(masterPattern,
                           DrawN(SFC32Init(query'.seed), SCALE_SIZE))} :
            /\ again.barActivationOrder = fresh.barActivationOrder
            /\ again.scalePriorityOrder = fresh.scalePriorityOrder
            /\ again.steps = fresh.steps
            /\ masterPattern'.barActivationOrder = fresh.barActivationOrder
            /\ masterPattern'.scalePriorityOrder = fresh.scalePriorityOrder
            /\ masterPattern'.steps = fresh.steps]_vars

\* A pattern generated over the pattern of another seed with mutes set: the
\* mutes are kept, the content is the new seed's.
GeneratedOverAnotherPattern ==
    /\ query.op = "generateMaster"
    /\ query.seed # query.previousSeed
    /\ query.previousMuted[5] /\ masterPattern.muted[5]
    /\ masterPattern.steps = Generated[query.seed].steps
    /\ masterPattern.steps # Generated[query.previousSeed].steps

\* C20: in every state barActivationOrder holds each of 0..15 exactly once
\* and scalePriorityOrder each of 0..6 exactly once, whatever the seed and
\* also when weights drawn for the sort are equal.
OrdersArePermutations ==
    /\ DOMAIN masterPattern.barActivationOrder = 0..(BAR_LEN - 1)
    /\ \A v \in 0..(BAR_LEN - 1) :
           Cardinality({i \in 0..(BAR_LEN - 1) :
                           masterPattern.barActivationOrder[i] = v}) = 1
    /\ DOMAIN masterPattern.scalePriorityOrder = 0..(SCALE_SIZE - 1)
    /\ \A v \in 0..(SCALE_SIZE - 1) :
           Cardinality({i \in 0..(SCALE_SIZE - 1) :
                           masterPattern.scalePriorityOrder[i] = v}) = 1

\* A generation with every draw 0.5: the root, then the fifth, then the five
\* equal weights in index order; the "One", then the three other downbeats
\* in index order, then the twelve equal weights in index order.
OrdersSortedFromEqualWeights ==
    /\ query.op = "generateDrawn"
    /\ query.first = FloatHalf /\ query.second = FloatHalf
    /\ masterPattern.scalePriorityOrder
           = [i \in 0..(SCALE_SIZE - 1) |->
                 IF i = 0 THEN 0 ELSE IF i = 1 THEN 4
                 ELSE IF i <= 4 THEN i - 1 ELSE i]
    /\ \A i \in 0..3 : masterPattern.barActivationOrder[i] = 4 * i
    /\ masterPattern.barActivationOrder[4] = 1
    /\ masterPattern.barActivationOrder[15] = 15

\* C21: whatever the seed, the pattern generateMaster leaves has the root
\* degree first: scalePriorityOrder[0] = 0.
RootRanksFirst == masterPattern.scalePriorityOrder[0] = 0

\* A generation in which the root's own draw is the lowest of the seven
\* (0 against 0.5): the root is first all the same, the draws of 0.5 follow
\* in index order and the other draws of 0 come last.
RootFirstThoughDrawnLowest ==
    /\ query.op = "generateDrawn"
    /\ query.first = <<0, 0, 0>> /\ query.second = FloatHalf
    /\ masterPattern.scalePriorityOrder
           = [i \in 0..(SCALE_SIZE - 1) |->
                 IF i = 0 THEN 0 ELSE IF i = 1 THEN 1 ELSE IF i = 2 THEN 3
                 ELSE IF i = 3 THEN 4 ELSE IF i = 4 THEN 5
                 ELSE IF i = 5 THEN 2 ELSE 6]

\* C22: next() returns a value v with 0 <= v < 1 and randomInt(min, max) an
\* integer in [min, max], and every generated step descriptor has
\* notePoolIndex in 0..6, octave in {-1, 0, +1} and accent and slide rolls
\* in [0, 1).
DrawsAndDescriptorsInRange ==
    /\ query.op = "next" =>
           /\ L3Less(query.value, <<1, 0, 0>>)
           /\ query.poolIndex \in 0..(SCALE_SIZE - 1)
           /\ query.octave \in -1..1
    /\ query.op = "descriptor" =>
           /\ query.descriptor.notePoolIndex \in 0..(SCALE_SIZE - 1)
           /\ query.descriptor.octave \in -1..1
           /\ L3Less(query.descriptor.accentProb, <<1, 0, 0>>)
           /\ L3Less(query.descriptor.slideProb, <<1, 0, 0>>)

DisplayPatternNeverStale ==
    call.op = "process" => displayPattern = ResolveAll(masterPattern, params)

\* C29 (amended): at the end of a process() call the display pattern holds
\* what getStep returns, under the current knob values, on the master
\* pattern the call found.  A call without a generate edge leaves that
\* pattern in place, so the display is not stale; a generate edge replaces
\* the master pattern after the display has been refreshed and leaves
\* cachedDensity at -1, so that the next call refreshes it.
DisplayFollowsPatternFoundByCall ==
    /\ [](call.op = "process" =>
            /\ ~call.generateTriggered =>
                   displayPattern = ResolveAll(masterPattern, params)
            /\ call.generateTriggered => cached.density = -1)
    /\ [][call'.op = "process" =>
            /\ ~call'.generateTriggered => masterPattern' = masterPattern
            /\ call'.generateTriggered =>
                   displayPattern' =
                       IF call.op = "process" /\ ~call.generateTriggered
                       THEN displayPattern
                       ELSE ResolveAll(masterPattern, params')]_vars

\* The end of a call with a generate edge: the display shows the pattern of
\* the seed before, which is not what the new pattern resolves to.
DisplayShowsPatternBeforeGenerate ==
    /\ call.op = "process" /\ call.generateTriggered
    /\ cached.density = -1
    /\ displayPattern # ResolveAll(masterPattern, params)
    /\ \E s \in Seeds \ {currentSeed} :
           displayPattern
               = ResolveAll(generateNewPattern(s, MasterPatternInit), params)

\* C27: the octave offset stays in -2..+2 through any sequence of octave-up
\* and octave-down edges: an up edge adds exactly 1 unless the offset is +2
\* already (then it changes nothing), a down edge subtracts exactly 1 unless
\* the offset is -2 already (then it changes nothing); with both edges in
\* one call the up edge acts first.
OctaveOffsetStaysInRange ==
    /\ [](params.octave \in -2..2)
    /\ [][call'.op = "process" =>
            LET old == params.octave
                up  == IF call'.octaveUp
                       THEN (IF old = 2 THEN old ELSE old + 1) ELSE old
            IN  /\ ~call'.octaveDown => params'.octave = up
                /\ call'.octaveDown =>
                       params'.octave = IF up = -2 THEN up ELSE up - 1]_vars

\* An up edge, alone, at an offset of +2: the offset is +2 still.
UpEdgeAtUpperLimit ==
    /\ call.op = "process" /\ call.octaveUp /\ ~call.octaveDown
    /\ call.octaveBefore = 2
    /\ params.octave = 2

\* C30: a generate edge leaves the playback fields alone.  In a call with a
\* generate edge and no reset or clock edge the step index, the sliding flag,
\* the slide target and the clock-period estimate are unchanged, and the
\* pitch, the slide rate, the two pulse timers, the retrigger gap and the
\* clock timer move as one sample of the call moves them; with a clock edge
\* in the same call the step index advances from the position it had.
GenerateEdgeLeavesPlaybackAlone ==
    [][call'.op = "process" /\ call'.generateTriggered =>
        /\ currentSeed' # currentSeed
        /\ \A i \in 0..(MAX_STEPS - 1) : ~masterPattern'.muted[i]
        /\ cached'.density = -1
        /\ call'.clockRising =>
               currentStep' = AdvanceStep(IF call'.resetRising THEN -1
                                          ELSE currentStep,
                                          params'.patternLength)
        /\ ~call'.clockRising /\ ~call'.resetRising =>
               /\ currentStep' = currentStep
               /\ currentSlideActive' = currentSlideActive
               /\ slideTargetPitch' = slideTargetPitch
               /\ measuredClockPeriod' = measuredClockPeriod
               /\ timeSinceLastClock' = timeSinceLastClock + sampleTime
               /\ currentPitch' = ProcessSlide(Engine).currentPitch
               /\ slideRate' = ProcessSlide(Engine).slideRate
               /\ gatePulse' = PulseProcess(gatePulse, sampleTime).remaining
               /\ accentPulse'
                      = PulseProcess(accentPulse, sampleTime).remaining
               /\ retriggerGapRemaining'
                      = IF retriggerGapRemaining > 0
                        THEN retriggerGapRemaining - sampleTime
                        ELSE retriggerGapRemaining]_vars

\* A generate edge, with no other edge, while step 1 plays with a ramp on
\* its way.
GenerateEdgeDuringRamp ==
    /\ call.op = "process" /\ call.generateTriggered
    /\ ~call.clockRising /\ ~call.resetRising
    /\ currentStep = 1
    /\ slideRate # 0 /\ currentPitch # slideTargetPitch
    /\ call.rampSamples >= 2
    /\ masterPattern = generateNewPattern(currentSeed, MasterPatternInit)

\* C23: save then restore is a round trip.  Restoring the snapshot that
\* dataToJson writes of the running instance, into that instance or into one
\* just constructed, leaves the seed, the current step, both orderings, the
\* 64 step descriptors, the mute mask and the slide state (sliding flag,
\* current pitch, target pitch, rate) as they were saved; so every step
\* resolves as before and the next sample moves the pitch as it would have.
SaveRestoreRoundTrip ==
    [][call'.op = "dataFromJson" /\ call'.kind = "saved" =>
        /\ Instance' = Instance
        /\ ResolveAll(masterPattern', params') = ResolveAll(masterPattern, params)
        /\ PitchPlusRate(currentPitch', slideRate')
               = PitchPlusRate(currentPitch, slideRate)]_vars

\* The snapshot of an instance in mid-glide at step 1, with step 5 muted,
\* restored into an instance just constructed.
GlideRestoredIntoConstructed ==
    /\ call.op = "dataFromJson" /\ call.kind = "saved"
    /\ call.target = "constructed"
    /\ currentStep = 1 /\ masterPattern.muted[5]
    /\ slideRate # 0 /\ currentPitch # slideTargetPitch

\* C24: a restore from a snapshot without the pattern backup (no
\* masterPattern member, a schema version below 2, or no version at all)
\* leaves the orderings and the 64 step descriptors that generateMaster
\* writes for the seed of the snapshot, whatever pattern the instance held.
RestoreWithoutPatternRegenerates ==
    [][call'.op = "dataFromJson"
       /\ call'.kind \in {"noPattern", "version1", "noVersion"} =>
        /\ ~call'.loaded
        /\ currentSeed' = call'.snapshotSeed
        /\ masterPattern'.barActivationOrder
               = generateMaster(call'.snapshotSeed,
                                MasterPatternInit).barActivationOrder
        /\ masterPattern'.scalePriorityOrder
               = generateMaster(call'.snapshotSeed,
                                MasterPatternInit).scalePriorityOrder
        /\ masterPattern'.steps
               = generateMaster(call'.snapshotSeed, MasterPatternInit).steps]_vars

\* A version 1 snapshot, which carries a pattern, restored into a running
\* instance that held the pattern of another seed: the pattern of the
\* snapshot's seed is in place.
VersionOneRestoredOverOtherPattern ==
    /\ call.op = "dataFromJson" /\ call.kind = "version1"
    /\ call.target = "this" /\ ~call.loaded
    /\ call.seedBefore # call.snapshotSeed
    /\ currentStep = 1
    /\ masterPattern.steps = Generated[currentSeed].steps
    /\ masterPattern.steps # Generated[call.seedBefore].steps

\* C25: a restore leaves the instance in a safe state, whatever the
\* snapshot: from the restore on, every barActivationOrder entry is in
\* 0..15, every scalePriorityOrder entry in 0..6, every notePoolIndex in
\* 0..6 and the current step in -1..63.
RestoredStateIsInRange ==
    query.op = "dataFromJson" =>
        /\ \A i \in 0..(BAR_LEN - 1) :
               masterPattern.barActivationOrder[i] \in 0..(BAR_LEN - 1)
        /\ \A i \in 0..(SCALE_SIZE - 1) :
               masterPattern.scalePriorityOrder[i] \in 0..(SCALE_SIZE - 1)
        /\ \A i \in 0..(MAX_STEPS - 1) :
               masterPattern.steps[i].notePoolIndex \in 0..(SCALE_SIZE - 1)
        /\ currentStep \in -1..(MAX_STEPS - 1)

\* C26: the mute mask is cleared by a generate edge and by nothing else.
\* A process() call with a generate edge leaves all 64 mutes false; a call
\* without one (clock edges and reset edges included), a getStep query, and
\* a restore that regenerates from the seed because the snapshot's pattern
\* is not loaded leave every mute bit of the instance as it was.
MutesClearedByGenerateOnly ==
    [][/\ call'.op = "process" /\ call'.generateTriggered =>
              \A i \in 0..(MAX_STEPS - 1) : ~masterPattern'.muted[i]
       /\ call'.op = "process" /\ ~call'.generateTriggered =>
              masterPattern'.muted = masterPattern.muted
       /\ call'.op = "getStep" => masterPattern'.muted = masterPattern.muted
       /\ call'.op = "dataFromJson" /\ ~call'.loaded =>
              /\ {i \in 0..(MAX_STEPS - 1) : masterPattern'.muted[i]}
                     = call'.mutedBefore
              /\ call'.target = "this" =>
                     masterPattern'.muted = masterPattern.muted]_vars

\* A snapshot without a pattern restored into a running instance whose step
\* 5 is muted and whose pattern came from another seed: the pattern is
\* regenerated and step 5 is muted still.
FallbackRestoreKeepsMute ==
    /\ call.op = "dataFromJson" /\ call.kind = "noPattern"
    /\ call.target = "this" /\ ~call.loaded
    /\ call.mutedBefore = {5} /\ masterPattern.muted[5]
    /\ call.seedBefore # currentSeed
    /\ masterPattern.steps = Generated[currentSeed].steps

====
